---- MODULE Spec2Model ----
(***************************************************************************)
(* Model of the OCR correction engine of the repository:                   *)
(*   post_process_enhanced.py  (confusion table, EnhancedPostProcessor,    *)
(*                              MultiHypothesisProcessor)                  *)
(*   post_process_context.py   (ContextAwarePostProcessor)                 *)
(*   build_corpus_model.py     (CorpusProcessor)                           *)
(*                                                                         *)
(* Characters are named by transliteration ("kaf_ar" is the Arabic kaf     *)
(* U+0643, "kaf" the Persian kaf U+06A9); a word is a sequence of          *)
(* characters; a text is a sequence of characters in which "sp" and "nl"   *)
(* are whitespace.  Python floats are modelled by exact rationals.         *)
(***************************************************************************)
EXTENDS Integers, Sequences, FiniteSets, TLC

VARIABLES FUZZY_LIB, pp, cap, cp, disk, call

vars == <<FUZZY_LIB, pp, cap, cp, disk, call>>

(***************************************************************************)
(* Bounds of the model                                                     *)
(***************************************************************************)
MaxSimLen == 3

MaxVarLen == 2

MaxTextPieces == 2

MaxHypotheses == 2

MaxDocTokens == 3

MaxTotalWords == 6

MaxConfWords == 2

MaxFiles == 3

MaxLogWords == 3

\* default arguments of the code
DefaultMaxVariants == 20

DefaultMaxCandidates == 10

(***************************************************************************)
(* Exact rational arithmetic standing for Python's float arithmetic        *)
(***************************************************************************)
RECURSIVE GCD(_, _)
GCD(a, b) == IF b = 0 THEN a ELSE GCD(b, a % b)

Abs(x) == IF x < 0 THEN -x ELSE x

Rat(n, d) ==
    LET g == GCD(Abs(n), Abs(d))
        s == IF d < 0 THEN -1 ELSE 1
    IN  [n |-> (s * n) \div g, d |-> (s * d) \div g]

R(n) == [n |-> n, d |-> 1]

RAdd(a, b) == Rat(a.n * b.d + b.n * a.d, a.d * b.d)

RSub(a, b) == Rat(a.n * b.d - b.n * a.d, a.d * b.d)

RMul(a, b) == Rat(a.n * b.n, a.d * b.d)

RDiv(a, b) == Rat(a.n * b.d, a.d * b.n)

RLe(a, b) == a.n * b.d <= b.n * a.d

RLt(a, b) == a.n * b.d < b.n * a.d

RMin(a, b) == IF RLe(a, b) THEN a ELSE b

RMax(a, b) == IF RLe(a, b) THEN b ELSE a

(***************************************************************************)
(* Sequences                                                               *)
(***************************************************************************)
Words(A, n) == UNION {[1..k -> A] : k \in 0..n}

Range(s) == {s[i] : i \in DOMAIN s}

Max2(a, b) == IF a >= b THEN a ELSE b

Min2(a, b) == IF a <= b THEN a ELSE b

\* s[:k] of Python for 0 <= k
Prefix(s, k) == SubSeq(s, 1, Min2(k, Len(s)))

RECURSIVE Perms(_)
Perms(S) ==
    IF S = {} THEN {<<>>}
    ELSE UNION {{<<x>> \o p : p \in Perms(S \ {x})} : x \in S}

(***************************************************************************)
(* CONFUSION_MATRIX: char -> list of replacement strings.  Every           *)
(* replacement is one character except lam's "lam alef" ligature.          *)
(***************************************************************************)
CONFUSION_MATRIX ==
    ("ba" :> <<<<"pe">>, <<"te">>, <<"se">>, <<"nun">>, <<"ye">>>>) @@
    ("pe" :> <<<<"ba">>, <<"te">>, <<"se">>, <<"che">>>>) @@
    ("te" :> <<<<"ba">>, <<"pe">>, <<"se">>, <<"nun">>>>) @@
    ("se" :> <<<<"ba">>, <<"pe">>, <<"te">>>>) @@
    ("jim" :> <<<<"che">>, <<"hah">>, <<"khe">>>>) @@
    ("che" :> <<<<"jim">>, <<"hah">>, <<"khe">>>>) @@
    ("hah" :> <<<<"jim">>, <<"che">>, <<"khe">>>>) @@
    ("khe" :> <<<<"jim">>, <<"che">>, <<"hah">>>>) @@
    ("dal" :> <<<<"zal">>>>) @@
    ("zal" :> <<<<"dal">>>>) @@
    ("re" :> <<<<"ze">>, <<"zhe">>, <<"vav">>>>) @@
    ("ze" :> <<<<"re">>, <<"zhe">>>>) @@
    ("zhe" :> <<<<"ze">>, <<"re">>>>) @@
    ("sin" :> <<<<"shin">>>>) @@
    ("shin" :> <<<<"sin">>>>) @@
    ("sad" :> <<<<"zad">>>>) @@
    ("zad" :> <<<<"sad">>>>) @@
    ("ta" :> <<<<"za">>>>) @@
    ("za" :> <<<<"ta">>>>) @@
    ("eyn" :> <<<<"gheyn">>>>) @@
    ("gheyn" :> <<<<"eyn">>>>) @@
    ("fe" :> <<<<"ghaf">>>>) @@
    ("ghaf" :> <<<<"fe">>>>) @@
    ("kaf" :> <<<<"gaf">>, <<"kaf_ar">>>>) @@
    ("gaf" :> <<<<"kaf">>, <<"kaf_ar">>>>) @@
    ("lam" :> <<<<"alef">>, <<"lam", "alef">>>>) @@
    ("mim" :> <<<<"nun">>>>) @@
    ("nun" :> <<<<"ba">>, <<"te">>, <<"se">>, <<"mim">>, <<"ye">>>>) @@
    ("vav" :> <<<<"re">>, <<"vav_hamza">>>>) @@
    ("he" :> <<<<"te_marbuta">>, <<"he_yeh">>, <<"he_do">>>>) @@
    ("ye" :> <<<<"ye_ar">>, <<"alef_maksura">>, <<"ye_hamza">>, <<"ba">>, <<"te">>, <<"nun">>>>) @@
    ("kaf_ar" :> <<<<"kaf">>, <<"gaf">>>>) @@
    ("ye_ar" :> <<<<"ye">>, <<"alef_maksura">>>>) @@
    ("te_marbuta" :> <<<<"he">>, <<"he_yeh">>>>) @@
    ("alef_hamza" :> <<<<"alef">>, <<"alef_hamza_below">>, <<"alef_madda">>>>) @@
    ("alef_hamza_below" :> <<<<"alef">>, <<"alef_hamza">>, <<"alef_madda">>>>) @@
    ("alef_madda" :> <<<<"alef">>, <<"alef_hamza">>, <<"alef_hamza_below">>>>) @@
    ("vav_hamza" :> <<<<"vav">>, <<"hamza">>>>) @@
    ("ye_hamza" :> <<<<"ye">>, <<"hamza">>>>) @@
    ("p4" :> <<<<"p5">>, <<"d4">>>>) @@
    ("p5" :> <<<<"p4">>, <<"d5">>>>) @@
    ("p6" :> <<<<"d6">>>>) @@
    ("a4" :> <<<<"a5">>, <<"p4">>, <<"p5">>>>) @@
    ("a5" :> <<<<"a4">>, <<"p4">>, <<"p5">>>>) @@
    ("a6" :> <<<<"p6">>, <<"d6">>>>)

\* CONFUSION_MATRIX.get(c, [])
ConfusionGet(c) == IF c \in DOMAIN CONFUSION_MATRIX THEN CONFUSION_MATRIX[c] ELSE <<>>

\* OCR_MIGHT_PRODUCE: confused string -> set of chars it may stand for;
\* a key of CONFUSION_MATRIX also maps to itself.  Absent keys give {}.
OCR_MIGHT_PRODUCE(s) ==
    {k \in DOMAIN CONFUSION_MATRIX : s \in Range(CONFUSION_MATRIX[k])}
    \cup (IF Len(s) = 1 /\ s[1] \in DOMAIN CONFUSION_MATRIX THEN {s[1]} ELSE {})

(***************************************************************************)
(* confusion_distance, in tenths (deletion/insertion 10, confusable        *)
(* substitution 3, other substitution 10)                                  *)
(***************************************************************************)
\* the confusion table looked up in one direction only
SubstitutionCostOneWay(c1, c2) ==
    IF c1 = c2 THEN 0
    ELSE IF <<c2>> \in Range(ConfusionGet(c1)) THEN 3
    ELSE 10

\* every substitution at full cost, confusable or not
SubstitutionCostFull(c1, c2) == IF c1 = c2 THEN 0 ELSE 10

SubstitutionCost(c1, c2) ==
    IF c1 = c2 THEN 0
    ELSE IF <<c2>> \in Range(ConfusionGet(c1)) \/ <<c1>> \in Range(ConfusionGet(c2)) THEN 3
    ELSE 10

Min3(a, b, c) == Min2(a, Min2(b, c))

\* row i of the dp matrix from row i-1; rows are sequences indexed j+1
RECURSIVE DpRow(_, _, _, _, _)
DpRow(prev, c1, word2, i, acc) ==
    LET j == Len(acc)
    IN  IF j > Len(word2) THEN acc
        ELSE IF j = 0 THEN DpRow(prev, c1, word2, i, <<i * 10>>)
        ELSE DpRow(prev, c1, word2, i,
                   Append(acc, Min3(prev[j + 1] + 10,
                                    acc[j] + 10,
                                    prev[j] + SubstitutionCost(c1, word2[j]))))

RECURSIVE DpRows(_, _, _, _)
DpRows(prev, word1, word2, i) ==
    IF i > Len(word1) THEN prev
    ELSE DpRows(DpRow(prev, word1[i], word2, i, <<>>), word1, word2, i + 1)

confusion_distance(word1, word2) ==
    IF word1 = word2 THEN 0
    ELSE IF Abs(Len(word1) - Len(word2)) > 3 THEN 10 * Max2(Len(word1), Len(word2))
    ELSE DpRows([j \in 1..(Len(word2) + 1) |-> (j - 1) * 10], word1, word2, 1)[Len(word2) + 1]

confusion_similarity(word1, word2) ==
    IF word1 = word2 THEN R(100)
    ELSE LET max_len == Max2(Len(word1), Len(word2))
         IN  IF max_len = 0 THEN R(100)
             ELSE RMax(R(0), RMul(R(100), RSub(R(1), Rat(confusion_distance(word1, word2), 10 * max_len))))

(***************************************************************************)
(* Python values                                                           *)
(***************************************************************************)
\* None where a word (str) is expected; no word contains the char "None"
None == <<"None">>

\* None where a correction's debug_info (dict) is expected
NoneInfo == [source |-> "None"]

\* truthiness of an Optional[str]
Truthy(w) == w # None /\ w # <<>>

Whitespace == {"sp", "nl"}

\* characters outside U+0600..U+06FF: ASCII digits, punctuation, whitespace
NonArabic == {"d4", "d5", "d6", "dot", "sp", "nl"}

\* sum(counter.values())
RECURSIVE SumValues(_)
SumValues(f) ==
    IF DOMAIN f = {} THEN 0
    ELSE LET k == CHOOSE k \in DOMAIN f : TRUE
         IN  f[k] + SumValues([x \in (DOMAIN f) \ {k} |-> f[x]])

\* Counter.get(w, 0)
CounterGet(f, w) == IF w \in DOMAIN f THEN f[w] ELSE 0

\* str.split(): maximal runs of non-whitespace characters
RECURSIVE Split(_, _, _)
Split(text, i, cur) ==
    IF i > Len(text) THEN (IF cur = <<>> THEN <<>> ELSE <<cur>>)
    ELSE IF text[i] \in Whitespace
         THEN (IF cur = <<>> THEN <<>> ELSE <<cur>>) \o Split(text, i + 1, <<>>)
         ELSE Split(text, i + 1, Append(cur, text[i]))

split(text) == Split(text, 1, <<>>)

\* ''.join(words): the words run together
RECURSIVE join_no_separator(_)
join_no_separator(words) ==
    IF words = <<>> THEN <<>> ELSE words[1] \o join_no_separator(Tail(words))

\* ' '.join(words)
RECURSIVE join(_)
join(words) ==
    IF words = <<>> THEN <<>>
    ELSE IF Len(words) = 1 THEN words[1]
    ELSE words[1] \o <<"sp">> \o join(Tail(words))

\* the k-element subsets of S
RECURSIVE KSubsets(_, _)
KSubsets(S, k) ==
    IF k = 0 THEN {{}}
    ELSE IF Cardinality(S) < k THEN {}
    ELSE IF Cardinality(S) = k THEN {S}
    ELSE LET x == CHOOSE x \in S : TRUE
         IN  {T \cup {x} : T \in KSubsets(S \ {x}, k - 1)} \cup KSubsets(S \ {x}, k)

(***************************************************************************)
(* EnhancedPostProcessor                                                   *)
(***************************************************************************)
\* re.sub(r'^[^\u0600-\u06FF]+|[^\u0600-\u06FF]+$', '', word): strip edge chars in `outside`
RECURSIVE StripEdges(_, _)
StripEdges(word, outside) ==
    IF word = <<>> THEN word
    ELSE IF word[1] \in outside THEN StripEdges(Tail(word), outside)
    ELSE IF word[Len(word)] \in outside THEN StripEdges(SubSeq(word, 1, Len(word) - 1), outside)
    ELSE word

_normalize(self, word) ==
    LET w == StripEdges(word, NonArabic)
    IN  IF Len(w) >= self.min_word_length THEN w ELSE None

\* min(100, freq * 500) for freq = following[w] / max(1, sum(following.values()))
BigramContribution(following, w, factor) ==
    RMin(R(100), RMul(Rat(following[w], Max2(1, SumValues(following))), R(factor)))

\* get_context_score counting a missing neighbour as a lookup without a hit
get_context_score_missing_counts(self, prev_word, word, next_word) ==
    IF self.total_bigrams = 0 THEN R(50)
    ELSE
    LET word_norm == IF Truthy(word) THEN _normalize(self, word) ELSE None
        prev_norm == IF Truthy(prev_word) THEN _normalize(self, prev_word) ELSE None
        next_norm == IF Truthy(next_word) THEN _normalize(self, next_word) ELSE None
        prevHit   == Truthy(prev_word) /\ Truthy(prev_norm) /\ prev_norm \in DOMAIN self.bigrams
        nextHit   == Truthy(next_word) /\ Truthy(word_norm) /\ word_norm \in DOMAIN self.bigrams
        s1 == IF prevHit /\ Truthy(word_norm) /\ word_norm \in DOMAIN self.bigrams[prev_norm]
              THEN BigramContribution(self.bigrams[prev_norm], word_norm, 500) ELSE R(0)
        s2 == IF nextHit /\ Truthy(next_norm) /\ next_norm \in DOMAIN self.bigrams[word_norm]
              THEN BigramContribution(self.bigrams[word_norm], next_norm, 500) ELSE R(0)
        count == (IF prevHit \/ ~Truthy(prev_word) THEN 1 ELSE 0)
                 + (IF nextHit \/ ~Truthy(next_word) THEN 1 ELSE 0)
    IN  IF count > 0 THEN RDiv(RAdd(s1, s2), R(Max2(1, count))) ELSE R(50)

get_context_score(self, prev_word, word, next_word) ==
    IF self.total_bigrams = 0 THEN R(50)
    ELSE
    LET word_norm == IF Truthy(word) THEN _normalize(self, word) ELSE None
        prev_norm == IF Truthy(prev_word) THEN _normalize(self, prev_word) ELSE None
        next_norm == IF Truthy(next_word) THEN _normalize(self, next_word) ELSE None
        prevHit   == Truthy(prev_word) /\ Truthy(prev_norm) /\ prev_norm \in DOMAIN self.bigrams
        nextHit   == Truthy(next_word) /\ Truthy(word_norm) /\ word_norm \in DOMAIN self.bigrams
        s1 == IF prevHit /\ Truthy(word_norm) /\ word_norm \in DOMAIN self.bigrams[prev_norm]
              THEN BigramContribution(self.bigrams[prev_norm], word_norm, 500) ELSE R(0)
        s2 == IF nextHit /\ Truthy(next_norm) /\ next_norm \in DOMAIN self.bigrams[word_norm]
              THEN BigramContribution(self.bigrams[word_norm], next_norm, 500) ELSE R(0)
        count == (IF prevHit THEN 1 ELSE 0) + (IF nextHit THEN 1 ELSE 0)
    IN  IF count > 0 THEN RDiv(RAdd(s1, s2), R(Max2(1, count))) ELSE R(50)

\* word[:i] + replacement + word[i+1:]
Replace(word, i, replacement) ==
    SubSeq(word, 1, i - 1) \o replacement \o SubSeq(word, i + 1, Len(word))

\* the set built by generate_confusion_variants before it is cut
AllVariants(word) ==
    {word}
    \cup {Replace(word, i, r) : <<i, r>> \in
            UNION {{<<i, r>> : r \in Range(ConfusionGet(word[i]))} : i \in DOMAIN word}}
    \cup {Replace(word, i, <<o>>) : <<i, o>> \in
            UNION {{<<i, o>> : o \in OCR_MIGHT_PRODUCE(<<word[i]>>)} : i \in DOMAIN word}}

\* list(variants)[:max_variants]: a set has no order, so the cut keeps any
\* max_variants of its elements.  The possible results, each as a set.
generate_confusion_variants(word, max_variants) ==
    KSubsets(AllVariants(word), Min2(max_variants, Cardinality(AllVariants(word))))

(***************************************************************************)
(* rapidfuzz: fuzz.ratio is the normalised Indel similarity                *)
(* 100 * 2*LCS(s1, s2) / (len(s1) + len(s2)); process.extract returns the  *)
(* `limit` best choices by descending score.  The choices are a Python     *)
(* set, so choices of equal score come in any order.                       *)
(***************************************************************************)
RECURSIVE LCS(_, _)
LCS(a, b) ==
    IF a = <<>> \/ b = <<>> THEN 0
    ELSE IF a[Len(a)] = b[Len(b)]
         THEN 1 + LCS(SubSeq(a, 1, Len(a) - 1), SubSeq(b, 1, Len(b) - 1))
         ELSE Max2(LCS(SubSeq(a, 1, Len(a) - 1), b), LCS(a, SubSeq(b, 1, Len(b) - 1)))

fuzz_ratio(s1, s2) ==
    IF Len(s1) + Len(s2) = 0 THEN R(100)
    ELSE Rat(200 * LCS(s1, s2), Len(s1) + Len(s2))

process_extract(query, choices, limit) ==
    {Prefix([i \in DOMAIN p |-> <<p[i], fuzz_ratio(query, p[i])>>], limit) :
        p \in {q \in Perms(choices) :
                 \A i \in 1..(Len(q) - 1) :
                     RLe(fuzz_ratio(query, q[i + 1]), fuzz_ratio(query, q[i]))}}

(***************************************************************************)
(* EnhancedPostProcessor.find_candidates                                   *)
(***************************************************************************)
Cand(text, score, source) ==
    [text |-> text, score |-> score, source |-> source,
     confidence_boost |-> 0, freq_bonus |-> 0]

\* candidates.sort(key=lambda x: -x[1]): stable, descending by score
RECURSIVE InsertByScore(_, _)
InsertByScore(sorted, c) ==
    IF sorted = <<>> THEN <<c>>
    ELSE IF RLt(Head(sorted).score, c.score) THEN <<c>> \o sorted
    ELSE <<Head(sorted)>> \o InsertByScore(Tail(sorted), c)

RECURSIVE SortByScore(_)
SortByScore(cands) ==
    IF cands = <<>> THEN <<>>
    ELSE InsertByScore(SortByScore(SubSeq(cands, 1, Len(cands) - 1)), cands[Len(cands)])

\* step 2: the loop over fuzzy_matches
RECURSIVE FuzzyLoop(_, _, _, _)
FuzzyLoop(self, word, candidates, matches) ==
    IF matches = <<>> THEN candidates
    ELSE LET candidate   == Head(matches)[1]
             fuzzy_score == Head(matches)[2]
             conf_score  == confusion_similarity(word, candidate)
             combined    == RAdd(RMul(Rat(4, 10), fuzzy_score), RMul(Rat(6, 10), conf_score))
             add == /\ candidate # word
                    /\ RLe(self.confusion_threshold, combined)
                    /\ \A i \in DOMAIN candidates : candidates[i].text # candidate
         IN  FuzzyLoop(self, word,
                       IF add THEN Append(candidates, Cand(candidate, combined, "fuzzy"))
                       ELSE candidates,
                       Tail(matches))

\* step 3: boost of one candidate by the low-confidence positions it changes
Boost(self, word, char_confidences, c) ==
    IF char_confidences # <<>> /\ Len(char_confidences) = Len(word) /\ Len(c.text) = Len(word)
    THEN LET low_conf_positions == {i \in DOMAIN char_confidences :
                                       RLt(char_confidences[i], self.confidence_threshold)}
             diff_positions == {j \in DOMAIN word : word[j] # c.text[j]}
             overlap == Cardinality(diff_positions \cap low_conf_positions)
         IN  IF overlap > 0
             THEN [c EXCEPT !.score = RMin(R(100), RAdd(c.score, R(5 * overlap))),
                            !.confidence_boost = 5 * overlap]
             ELSE c
    ELSE c

\* if freq > 10: 3 / elif freq > 100: 5 -- the second branch is never taken
FreqBonus(self, candidate) ==
    IF CounterGet(self.word_freq, candidate) > 10 THEN 3
    ELSE IF CounterGet(self.word_freq, candidate) > 100 THEN 5
    ELSE 0

AddFreqBonus(self, c) ==
    [c EXCEPT !.score = RMin(R(100), RAdd(c.score, R(FreqBonus(self, c.text)))),
              !.freq_bonus = FreqBonus(self, c.text)]

\* step 2 trusting the raw fuzzy ratio instead of the combined score
RECURSIVE FuzzyLoopRawRatio(_, _, _, _)
FuzzyLoopRawRatio(self, word, candidates, matches) ==
    IF matches = <<>> THEN candidates
    ELSE LET candidate   == Head(matches)[1]
             fuzzy_score == Head(matches)[2]
             add == /\ candidate # word
                    /\ RLe(self.confusion_threshold, fuzzy_score)
                    /\ \A i \in DOMAIN candidates : candidates[i].text # candidate
         IN  FuzzyLoopRawRatio(self, word,
                               IF add THEN Append(candidates, Cand(candidate, fuzzy_score, "fuzzy"))
                               ELSE candidates,
                               Tail(matches))

CandidatesRawRatio(self, word, char_confidences, max_candidates, variantOrder, matches) ==
    LET fromVariants == [i \in DOMAIN variantOrder |->
                            Cand(variantOrder[i], confusion_similarity(word, variantOrder[i]),
                                 "confusion_variant")]
        candidates == FuzzyLoopRawRatio(self, word, fromVariants, matches)
        boosted    == [i \in DOMAIN candidates |-> Boost(self, word, char_confidences, candidates[i])]
        kept       == Prefix(SortByScore(boosted), max_candidates)
        final_candidates == [i \in DOMAIN kept |-> AddFreqBonus(self, kept[i])]
    IN  IF final_candidates = <<>> THEN <<Cand(word, R(0), "no_match")>>
        ELSE final_candidates

\* steps 1..4 for one order of the variants and one result of process.extract
Candidates(self, word, char_confidences, max_candidates, variantOrder, matches) ==
    LET fromVariants == [i \in DOMAIN variantOrder |->
                            Cand(variantOrder[i], confusion_similarity(word, variantOrder[i]),
                                 "confusion_variant")]
        candidates == FuzzyLoop(self, word, fromVariants, matches)
        boosted    == [i \in DOMAIN candidates |-> Boost(self, word, char_confidences, candidates[i])]
        kept       == Prefix(SortByScore(boosted), max_candidates)
        final_candidates == [i \in DOMAIN kept |-> AddFreqBonus(self, kept[i])]
    IN  IF final_candidates = <<>> THEN <<Cand(word, R(0), "no_match")>>
        ELSE final_candidates

\* The variants that pass the test of line 358-360, for each result of
\* generate_confusion_variants(word): with n variants cut to k, any n - k of
\* them are lost, so the surviving hits are the subsets of all hits that
\* lose at most n - k of them (this is {V \cap hits : V \in
\* generate_confusion_variants(word, DefaultMaxVariants)}, without listing
\* every cut V).
VariantHits(self, word) ==
    LET n    == Cardinality(AllVariants(word))
        k    == Min2(DefaultMaxVariants, n)
        hits == {v \in AllVariants(word) :
                   /\ v \in self.dictionary
                   /\ v # word
                   /\ RLe(self.confusion_threshold, confusion_similarity(word, v))}
    IN  {H \in SUBSET hits : Cardinality(hits \ H) <= n - k /\ Cardinality(H) <= k}

\* lines 353-437: the search, for a word that passed the two early returns
SearchCandidates(self, lib, word, char_confidences, max_candidates) ==
    UNION {
      UNION {
        {Candidates(self, word, char_confidences, max_candidates, variantOrder, matches) :
            matches \in (IF lib # "None"
                         THEN process_extract(word, self.dictionary, max_candidates * 2)
                         ELSE {<<>>})} :
        variantOrder \in Perms(hits)} :
      hits \in VariantHits(self, word)}

\* find_candidates without its "already in dictionary" return
find_candidates_no_in_dict(self, lib, word, char_confidences, max_candidates) ==
    IF self.dictionary = {} THEN {<<Cand(word, R(100), "no_dict")>>}
    ELSE SearchCandidates(self, lib, word, char_confidences, max_candidates)

\* the possible results of find_candidates(word, char_confidences, max_candidates)
find_candidates(self, lib, word, char_confidences, max_candidates) ==
    IF self.dictionary = {} THEN {<<Cand(word, R(100), "no_dict")>>}
    ELSE IF word \in self.dictionary THEN {<<Cand(word, R(100), "in_dict")>>}
    ELSE SearchCandidates(self, lib, word, char_confidences, max_candidates)

(***************************************************************************)
(* EnhancedPostProcessor.correct_word                                      *)
(***************************************************************************)
RECURSIVE SumRat(_)
SumRat(xs) == IF xs = <<>> THEN R(0) ELSE RAdd(Head(xs), SumRat(Tail(xs)))

\* the loop "for candidate, base_score, info in candidates" from position i
RECURSIVE BestLoop(_, _, _, _, _, _)
BestLoop(self, candidates, prev_word, next_word, i, best) ==
    IF i > Len(candidates) THEN best
    ELSE LET c == candidates[i]
             context_score == get_context_score(self, prev_word, c.text, next_word)
             final_score == RAdd(RMul(RSub(R(1), self.context_weight), c.score),
                                 RMul(self.context_weight, context_score))
         IN  BestLoop(self, candidates, prev_word, next_word, i + 1,
                      IF RLt(best.score, final_score)
                      THEN [candidate |-> c.text, score |-> final_score,
                            info |-> [source |-> c.source,
                                      confidence_boost |-> c.confidence_boost,
                                      freq_bonus |-> c.freq_bonus,
                                      base_score |-> c.score,
                                      context_score |-> context_score,
                                      final_score |-> final_score,
                                      prev_word |-> prev_word,
                                      next_word |-> next_word]]
                      ELSE best)

\* threshold = confusion_threshold, lowered for a low average confidence
AcceptanceThreshold(self, char_confidences) ==
    IF char_confidences # <<>>
       /\ RLt(RDiv(SumRat(char_confidences), R(Len(char_confidences))), self.confidence_threshold)
    THEN RMax(R(50), RSub(self.confusion_threshold, R(10)))
    ELSE self.confusion_threshold

\* lines 469-504 returning best_info whether or not the word was corrected
ScoreAndDecideAlwaysInfo(self, word, candidates, char_confidences, prev_word, next_word) ==
    LET best == BestLoop(self, candidates, prev_word, next_word, 1,
                         [candidate |-> word, score |-> R(0), info |-> NoneInfo])
        was_corrected == best.candidate # word
                         /\ RLe(AcceptanceThreshold(self, char_confidences), best.score)
    IN  [word |-> best.candidate, was_corrected |-> was_corrected, info |-> best.info]

\* lines 469-504 for one candidate list
ScoreAndDecide(self, word, candidates, char_confidences, prev_word, next_word) ==
    LET best == BestLoop(self, candidates, prev_word, next_word, 1,
                         [candidate |-> word, score |-> R(0), info |-> NoneInfo])
        was_corrected == best.candidate # word
                         /\ RLe(AcceptanceThreshold(self, char_confidences), best.score)
    IN  [word |-> best.candidate,
         was_corrected |-> was_corrected,
         info |-> IF was_corrected THEN best.info ELSE NoneInfo]

\* the possible results (corrected_word, was_corrected, debug_info)
correct_word(self, lib, word, char_confidences, prev_word, next_word) ==
    IF Len(word) < self.min_word_length
    THEN {[word |-> word, was_corrected |-> FALSE, info |-> NoneInfo]}
    ELSE IF word \in self.dictionary
    THEN {[word |-> word, was_corrected |-> FALSE, info |-> NoneInfo]}
    ELSE {IF candidates = <<>> \/ candidates[1].score = R(0)
          THEN [word |-> word, was_corrected |-> FALSE, info |-> NoneInfo]
          ELSE ScoreAndDecide(self, word, candidates, char_confidences, prev_word, next_word) :
             candidates \in find_candidates(self, lib, word, char_confidences, DefaultMaxCandidates)}

(***************************************************************************)
(* EnhancedPostProcessor.process_text                                      *)
(***************************************************************************)
\* words[i] if 1 <= i <= len(words) else None   (1-based)
WordAt(words, i) == IF i \in DOMAIN words THEN words[i] ELSE None

\* the loop over the words from position i on: the possible
\* (corrected_words, corrections) it adds
RECURSIVE ProcessLoop(_, _, _, _)
ProcessLoop(self, lib, words, i) ==
    IF i > Len(words) THEN {[corrected_words |-> <<>>, corrections |-> <<>>]}
    ELSE UNION {
           {[corrected_words |-> <<r.word>> \o rest.corrected_words,
             corrections |-> (IF r.was_corrected /\ r.info # NoneInfo
                              THEN <<[original |-> words[i], corrected |-> r.word, info |-> r.info]>>
                              ELSE <<>>) \o rest.corrections] :
              rest \in ProcessLoop(self, lib, words, i + 1)} :
           r \in correct_word(self, lib, words[i], <<>>,
                              WordAt(words, i - 1), WordAt(words, i + 1))}

\* the loop passing the corrected previous word on as prev_word
RECURSIVE ProcessLoopCascade(_, _, _, _, _)
ProcessLoopCascade(self, lib, words, i, prev) ==
    IF i > Len(words) THEN {[corrected_words |-> <<>>, corrections |-> <<>>]}
    ELSE UNION {
           {[corrected_words |-> <<r.word>> \o rest.corrected_words,
             corrections |-> (IF r.was_corrected /\ r.info # NoneInfo
                              THEN <<[original |-> words[i], corrected |-> r.word, info |-> r.info]>>
                              ELSE <<>>) \o rest.corrections] :
              rest \in ProcessLoopCascade(self, lib, words, i + 1, r.word)} :
           r \in correct_word(self, lib, words[i], <<>>, prev, WordAt(words, i + 1))}

\* process_text deciding each word with its corrected left neighbour
process_text_cascade(self, lib, text) ==
    {[text |-> join(r.corrected_words), corrections |-> r.corrections] :
        r \in ProcessLoopCascade(self, lib, split(text), 1, None)}

process_text(self, lib, text) ==
    {[text |-> join(r.corrected_words), corrections |-> r.corrections] :
        r \in ProcessLoop(self, lib, split(text), 1)}

(***************************************************************************)
(* EnhancedPostProcessor.process_with_confidence.  A call either returns   *)
(* [text, corrections] or ends with an exception, Raised(...).             *)
(***************************************************************************)
Raised(exception) == [exception |-> exception]

IsRaised(x) == "exception" \in DOMAIN x

\* None where a float is expected
NoneFloat == [none |-> TRUE]

\* sum(word_conf)/len(word_conf) without the test "if word_conf"
word_confidence_unguarded(word_conf) ==
    IF Len(word_conf) = 0 THEN Raised("ZeroDivisionError")
    ELSE RDiv(SumRat(word_conf), R(Len(word_conf)))

\* sum(word_conf)/len(word_conf) if word_conf else None
word_confidence(word_conf) ==
    IF word_conf # <<>> THEN RDiv(SumRat(word_conf), R(Len(word_conf))) ELSE NoneFloat

\* the loop over zip(words, char_confidences) from position i on: the
\* possible (corrected_words, corrections) it adds, or the exception
RECURSIVE ConfidenceLoop(_, _, _, _, _)
ConfidenceLoop(self, lib, words, char_confidences, i) ==
    IF i > Min2(Len(words), Len(char_confidences))
    THEN {[corrected_words |-> <<>>, corrections |-> <<>>]}
    ELSE UNION {
           {IF r.was_corrected /\ r.info # NoneInfo /\ IsRaised(word_confidence(char_confidences[i]))
            THEN word_confidence(char_confidences[i])
            ELSE IF IsRaised(rest) THEN rest
            ELSE [corrected_words |-> <<r.word>> \o rest.corrected_words,
                  corrections |-> (IF r.was_corrected /\ r.info # NoneInfo
                                   THEN <<[original |-> words[i], corrected |-> r.word,
                                           word_confidence |-> word_confidence(char_confidences[i]),
                                           info |-> r.info]>>
                                   ELSE <<>>) \o rest.corrections] :
              rest \in ConfidenceLoop(self, lib, words, char_confidences, i + 1)} :
           r \in correct_word(self, lib, words[i], char_confidences[i],
                              WordAt(words, i - 1), WordAt(words, i + 1))}

\* lines 557-581: the loop and the return
ConfidenceResult(self, lib, words, char_confidences) ==
    {IF IsRaised(r) THEN r
     ELSE [text |-> join(r.corrected_words), corrections |-> r.corrections] :
        r \in ConfidenceLoop(self, lib, words, char_confidences, 1)}

\* process_with_confidence without the count test of line 553
process_with_confidence_no_fallback(self, lib, text, char_confidences) ==
    ConfidenceResult(self, lib, split(text), char_confidences)

process_with_confidence(self, lib, text, char_confidences) ==
    IF Len(char_confidences) # Len(split(text)) THEN process_text(self, lib, text)
    ELSE ConfidenceResult(self, lib, split(text), char_confidences)

(***************************************************************************)
(* MultiHypothesisProcessor                                                *)
(***************************************************************************)
\* sum of get_context_score(words[i], words[i+1], words[i+2] or None), i from k
RECURSIVE ContextSum(_, _, _)
ContextSum(self, words, k) ==
    IF k > Len(words) - 1 THEN R(0)
    ELSE RAdd(get_context_score(self, words[k], words[k + 1], WordAt(words, k + 2)),
              ContextSum(self, words, k + 1))

score_hypothesis(self, text, base_score) ==
    LET words == split(text)
        in_dict == Cardinality({i \in DOMAIN words : words[i] \in self.dictionary})
        dict_coverage == Rat(in_dict, Max2(1, Len(words)))
        context_score == IF Len(words) > 1
                         THEN RDiv(ContextSum(self, words, 1), R(Len(words) - 1))
                         ELSE R(50)
        final_score == RAdd(RAdd(RMul(Rat(3, 10), base_score),
                                 RMul(Rat(4, 10), RMul(dict_coverage, R(100)))),
                            RMul(Rat(3, 10), context_score))
    IN  [score |-> final_score,
         info |-> [base_score |-> base_score, dict_coverage |-> dict_coverage,
                   context_score |-> context_score, in_dict_words |-> in_dict,
                   total_words |-> Len(words)]]

\* scored.sort(key=lambda x: -x[1]) on (text, score, info) triples
ScoredSorted(self, hypotheses) ==
    SortByScore([i \in DOMAIN hypotheses |->
                    [text |-> hypotheses[i][1],
                     score |-> score_hypothesis(self, hypotheses[i][1], hypotheses[i][2]).score,
                     info |-> score_hypothesis(self, hypotheses[i][1], hypotheses[i][2]).info]])

\* select_best_hypothesis that takes the last entry of the sorted list
select_best_hypothesis_last(self, hypotheses) ==
    IF hypotheses = <<>> THEN [text |-> <<>>, info |-> [kind |-> "empty"]]
    ELSE IF Len(hypotheses) = 1
    THEN [text |-> hypotheses[1][1], info |-> [kind |-> "single_hypothesis"]]
    ELSE LET scored == ScoredSorted(self, hypotheses)
         IN  [text |-> scored[Len(scored)].text,
              info |-> [kind |-> "scored", best_score |-> scored[Len(scored)].score,
                        num_hypotheses |-> Len(hypotheses),
                        runner_up_score |-> scored[2].score,
                        best_info |-> scored[Len(scored)].info]]

select_best_hypothesis(self, hypotheses) ==
    IF hypotheses = <<>> THEN [text |-> <<>>, info |-> [kind |-> "empty"]]
    ELSE IF Len(hypotheses) = 1
    THEN [text |-> hypotheses[1][1], info |-> [kind |-> "single_hypothesis"]]
    ELSE LET scored == ScoredSorted(self, hypotheses)
         IN  [text |-> scored[1].text,
              info |-> [kind |-> "scored", best_score |-> scored[1].score,
                        num_hypotheses |-> Len(hypotheses),
                        runner_up_score |-> scored[2].score,
                        best_info |-> scored[1].info]]

(***************************************************************************)
(* ContextAwarePostProcessor                                               *)
(***************************************************************************)
\* characters that are neither \w nor in U+0600..U+06FF
NonWord == {"dot", "sp", "nl", "bom", "macron", "plusminus", "raquo"}

CapNormalize(self, word) ==
    LET w == StripEdges(word, NonWord)
    IN  IF Len(w) >= self.min_word_length THEN w ELSE None

\* f"{w1}|{w2}"
TrigramKey(w1, w2) == w1 \o <<"bar">> \o w2

get_bigram_score(self, prev_word, word, next_word, prev_prev_word) ==
    IF self.total_bigrams = 0 THEN R(50)
    ELSE
    LET word_norm == IF Truthy(word) THEN CapNormalize(self, word) ELSE None
        prev_norm == IF Truthy(prev_word) THEN CapNormalize(self, prev_word) ELSE None
        next_norm == IF Truthy(next_word) THEN CapNormalize(self, next_word) ELSE None
        prev_prev_norm == IF Truthy(prev_prev_word) THEN CapNormalize(self, prev_prev_word) ELSE None
        prevHit == Truthy(prev_word) /\ Truthy(prev_norm) /\ prev_norm \in DOMAIN self.bigrams
        nextHit == Truthy(next_word) /\ Truthy(word_norm) /\ word_norm \in DOMAIN self.bigrams
        triHit  == /\ self.total_trigrams > 0
                   /\ Truthy(prev_prev_word) /\ Truthy(prev_word)
                   /\ Truthy(prev_prev_norm) /\ Truthy(prev_norm)
                   /\ TrigramKey(prev_prev_norm, prev_norm) \in DOMAIN self.trigrams
                   /\ Truthy(word_norm)
                   /\ word_norm \in DOMAIN self.trigrams[TrigramKey(prev_prev_norm, prev_norm)]
        s1 == IF prevHit /\ Truthy(word_norm) /\ word_norm \in DOMAIN self.bigrams[prev_norm]
              THEN BigramContribution(self.bigrams[prev_norm], word_norm, 500) ELSE R(0)
        s2 == IF nextHit /\ Truthy(next_norm) /\ next_norm \in DOMAIN self.bigrams[word_norm]
              THEN BigramContribution(self.bigrams[word_norm], next_norm, 500) ELSE R(0)
        s3 == IF triHit
              THEN BigramContribution(self.trigrams[TrigramKey(prev_prev_norm, prev_norm)], word_norm, 800)
              ELSE R(0)
        count == (IF prevHit THEN 1 ELSE 0) + (IF nextHit THEN 1 ELSE 0) + (IF triHit THEN 1 ELSE 0)
    IN  IF count > 0 THEN RDiv(RAdd(RAdd(s1, s2), s3), R(Max2(1, count))) ELSE R(50)

\* the (candidate, score) pairs of matches that reach fuzzy_threshold
RECURSIVE FilterMatches(_, _)
FilterMatches(self, matches) ==
    IF matches = <<>> THEN <<>>
    ELSE (IF RLe(self.fuzzy_threshold, Head(matches)[2])
          THEN <<[text |-> Head(matches)[1], score |-> Head(matches)[2]]>> ELSE <<>>)
         \o FilterMatches(self, Tail(matches))

\* get_candidates keeping every match of process.extract, whatever its score
get_candidates_unfiltered(self, lib, word) ==
    IF lib = "None" \/ self.dictionary = {} THEN {<<[text |-> word, score |-> R(100)]>>}
    ELSE IF word \in self.dictionary THEN {<<[text |-> word, score |-> R(100)]>>}
    ELSE IF Len(word) < self.min_word_length THEN {<<[text |-> word, score |-> R(0)]>>}
    ELSE {IF matches = <<>>
          THEN <<[text |-> word, score |-> R(0)]>>
          ELSE [i \in 1..Len(matches) |-> [text |-> matches[i][1], score |-> matches[i][2]]] :
             matches \in process_extract(word, self.dictionary, self.max_candidates)}

\* the possible results of get_candidates(word)
get_candidates(self, lib, word) ==
    IF lib = "None" \/ self.dictionary = {} THEN {<<[text |-> word, score |-> R(100)]>>}
    ELSE IF word \in self.dictionary THEN {<<[text |-> word, score |-> R(100)]>>}
    ELSE IF Len(word) < self.min_word_length THEN {<<[text |-> word, score |-> R(0)]>>}
    ELSE {IF FilterMatches(self, matches) = <<>>
          THEN <<[text |-> word, score |-> R(0)]>>
          ELSE FilterMatches(self, matches) :
             matches \in process_extract(word, self.dictionary, self.max_candidates)}

\* the loop "for candidate, fuzzy_score in candidates" from position i
RECURSIVE CapBestLoop(_, _, _, _, _, _, _, _)
CapBestLoop(self, word, candidates, prev_word, next_word, prev_prev_word, i, best) ==
    IF i > Len(candidates) THEN best
    ELSE LET c == candidates[i]
             context_score == get_bigram_score(self, prev_word, c.text, next_word, prev_prev_word)
             combined == RAdd(RMul(RSub(R(1), self.context_weight), c.score),
                              RMul(self.context_weight, context_score))
         IN  CapBestLoop(self, word, candidates, prev_word, next_word, prev_prev_word, i + 1,
                         IF RLt(best.score, combined)
                         THEN [candidate |-> c.text, score |-> combined,
                               info |-> [source |-> "fuzzy",
                                         original |-> word, candidate |-> c.text,
                                         fuzzy |-> c.score, context |-> context_score,
                                         combined |-> combined,
                                         prev |-> prev_word, next |-> next_word]]
                         ELSE best)

\* the possible results (corrected_word, was_corrected, debug_info)
correct_word_with_context(self, lib, word, prev_word, next_word, prev_prev_word) ==
    IF Len(word) < self.min_word_length
    THEN {[word |-> word, was_corrected |-> FALSE, info |-> NoneInfo]}
    ELSE IF word \in self.dictionary
    THEN {[word |-> word, was_corrected |-> FALSE, info |-> NoneInfo]}
    ELSE {IF candidates = <<>> \/ candidates[1].score = R(0)
          THEN [word |-> word, was_corrected |-> FALSE, info |-> NoneInfo]
          ELSE LET best == CapBestLoop(self, word, candidates, prev_word, next_word,
                                       prev_prev_word, 1,
                                       [candidate |-> word, score |-> R(0), info |-> NoneInfo])
                   was_corrected == best.candidate # word /\ RLe(self.fuzzy_threshold, best.score)
               IN  [word |-> best.candidate, was_corrected |-> was_corrected,
                    info |-> IF was_corrected THEN best.info ELSE NoneInfo] :
             candidates \in get_candidates(self, lib, word)}

RECURSIVE CapProcessLoop(_, _, _, _)
CapProcessLoop(self, lib, words, i) ==
    IF i > Len(words) THEN {[corrected_words |-> <<>>, corrections |-> <<>>]}
    ELSE UNION {
           {[corrected_words |-> <<r.word>> \o rest.corrected_words,
             corrections |-> (IF r.was_corrected THEN <<r.info>> ELSE <<>>) \o rest.corrections] :
              rest \in CapProcessLoop(self, lib, words, i + 1)} :
           r \in correct_word_with_context(self, lib, words[i], WordAt(words, i - 1),
                                           WordAt(words, i + 1), WordAt(words, i - 2))}

\* process_text that logs the corrected word as the original
CapProcessTextLogsCorrected(self, lib, text) ==
    {[text |-> join(r.corrected_words),
      corrections |-> [j \in DOMAIN r.corrections |->
                          [r.corrections[j] EXCEPT !.original = r.corrections[j].candidate]]] :
        r \in CapProcessLoop(self, lib, split(text), 1)}

\* ContextAwarePostProcessor.process_text
CapProcessText(self, lib, text) ==
    {[text |-> join(r.corrected_words), corrections |-> r.corrections] :
        r \in CapProcessLoop(self, lib, split(text), 1)}

(***************************************************************************)
(* CorpusProcessor (build_corpus_model.py)                                 *)
(***************************************************************************)
EmptyMap == [x \in {} |-> 0]

\* counter[k] += n
Inc(f, k, n) == IF k \in DOMAIN f THEN [f EXCEPT ![k] = @ + n] ELSE f @@ (k :> n)

\* table[k1][k2] += n on a defaultdict(Counter)
Inc2(m, k1, k2, n) ==
    IF k1 \in DOMAIN m THEN [m EXCEPT ![k1] = Inc(@, k2, n)] ELSE m @@ (k1 :> (k2 :> n))

\* CorpusProcessor()
FreshCP ==
    [word_freq |-> EmptyMap, bigrams |-> EmptyMap, trigrams |-> EmptyMap,
     total_words |-> 0, total_bigrams |-> 0, total_trigrams |-> 0, files_processed |-> 0]

Digits == {"d4", "d5", "d6", "p4", "p5", "p6", "a4", "a5", "a6"}

\* str.isdigit()
isdigit(word) == word # <<>> /\ \A i \in DOMAIN word : word[i] \in Digits

normalize_word(word) ==
    IF word = <<>> THEN None
    ELSE LET w == StripEdges(word, NonWord)
         IN  IF Len(w) < 2 \/ isdigit(w) THEN None ELSE w

\* the list `normalized` of process_text
RECURSIVE Normalized(_)
Normalized(words) ==
    IF words = <<>> THEN <<>>
    ELSE (IF normalize_word(Head(words)) # None THEN <<normalize_word(Head(words))>> ELSE <<>>)
         \o Normalized(Tail(words))

RECURSIVE CountWords(_, _, _)
CountWords(self, normalized, i) ==
    IF i > Len(normalized) THEN self
    ELSE CountWords([self EXCEPT !.word_freq = Inc(@, normalized[i], 1),
                                 !.total_words = @ + 1], normalized, i + 1)

RECURSIVE CountBigrams(_, _, _)
CountBigrams(self, normalized, i) ==
    IF i > Len(normalized) - 1 THEN self
    ELSE CountBigrams([self EXCEPT !.bigrams = Inc2(@, normalized[i], normalized[i + 1], 1),
                                   !.total_bigrams = @ + 1], normalized, i + 1)

RECURSIVE CountTrigrams(_, _, _)
CountTrigrams(self, normalized, i) ==
    IF i > Len(normalized) - 2 THEN self
    ELSE CountTrigrams([self EXCEPT !.trigrams = Inc2(@, TrigramKey(normalized[i], normalized[i + 1]),
                                                      normalized[i + 2], 1),
                                    !.total_trigrams = @ + 1], normalized, i + 1)

\* process_text that counts every token of text.split() as it stands
CorpusProcessTextUnfiltered(self, text) ==
    LET normalized == split(text)
    IN  CountTrigrams(CountBigrams(CountWords(self, normalized, 1), normalized, 1), normalized, 1)

\* CorpusProcessor.process_text: the processor after indexing text
CorpusProcessText(self, text) ==
    LET normalized == Normalized(split(text))
    IN  CountTrigrams(CountBigrams(CountWords(self, normalized, 1), normalized, 1), normalized, 1)

\* save_model writing the snapshot format without trigrams
save_model_no_trigrams(self) ==
    [word_freq |-> self.word_freq, bigrams |-> self.bigrams,
     total_words |-> self.total_words, total_bigrams |-> self.total_bigrams]

\* the dict pickled by save_model
save_model(self) ==
    [word_freq |-> self.word_freq, bigrams |-> self.bigrams, trigrams |-> self.trigrams,
     total_words |-> self.total_words, total_bigrams |-> self.total_bigrams,
     total_trigrams |-> self.total_trigrams]

\* the bytes of the corpus files of the model; EFBBBF stands for the three
\* bytes of a byte order mark, which these files hold only together
Ascii == ("x20" :> "sp") @@ ("x2E" :> "dot")

Lead2 == {"xD8", "xCF", "xD1"}

Continuation == {"xAF", "xB1"}

\* the character of a two-byte UTF-8 sequence
Utf8Pair(b1, b2) ==
    CASE b1 = "xD8" /\ b2 = "xAF" -> "dal"
      [] b1 = "xD8" /\ b2 = "xB1" -> "re"
      [] b1 = "xCF" /\ b2 = "xAF" -> "u03EF"
      [] b1 = "xCF" /\ b2 = "xB1" -> "u03F1"
      [] b1 = "xD1" /\ b2 = "xAF" -> "u046F"
      [] b1 = "xD1" /\ b2 = "xB1" -> "u0471"

\* bytes.decode('utf-8'): "invalid" marks the byte at which decoding fails
RECURSIVE Utf8Chars(_)
Utf8Chars(bytes) ==
    IF bytes = <<>> THEN <<>>
    ELSE IF bytes[1] \in DOMAIN Ascii THEN <<Ascii[bytes[1]]>> \o Utf8Chars(Tail(bytes))
    ELSE IF bytes[1] = "EFBBBF" THEN <<"bom">> \o Utf8Chars(Tail(bytes))
    ELSE IF bytes[1] \in Lead2 /\ Len(bytes) >= 2 /\ bytes[2] \in Continuation
         THEN <<Utf8Pair(bytes[1], bytes[2])>> \o Utf8Chars(Tail(Tail(bytes)))
    ELSE <<"invalid">>

\* the cp1256 code page: every byte is a character
Cp1256 ==
    ("xD8" :> <<"tah">>) @@ ("xAF" :> <<"macron">>) @@ ("xB1" :> <<"plusminus">>)
    @@ ("xCF" :> <<"dal">>) @@ ("xD1" :> <<"re">>)
    @@ ("EFBBBF" :> <<"i_diaeresis", "raquo", "qmark_ar">>)
    @@ ("x20" :> <<"sp">>) @@ ("x2E" :> <<"dot">>)

\* the iso-8859-6 code page: 0xAF and 0xB1 are undefined
Iso8859_6 ==
    ("xD8" :> <<"zah">>) @@ ("xAF" :> <<"invalid">>) @@ ("xB1" :> <<"invalid">>)
    @@ ("xCF" :> <<"dal">>) @@ ("xD1" :> <<"re">>)
    @@ ("EFBBBF" :> <<"damma", "semicolon_ar", "qmark_ar">>)
    @@ ("x20" :> <<"sp">>) @@ ("x2E" :> <<"dot">>)

\* bytes.decode of a single-byte code page
RECURSIVE CharmapChars(_, _)
CharmapChars(bytes, table) ==
    IF bytes = <<>> THEN <<>> ELSE table[bytes[1]] \o CharmapChars(Tail(bytes), table)

\* the characters bytes.decode(encoding) yields
Decoded(bytes, encoding) ==
    CASE encoding = "utf-8" -> Utf8Chars(bytes)
      [] encoding = "utf-8-sig" ->
             Utf8Chars(IF bytes # <<>> /\ bytes[1] = "EFBBBF" THEN Tail(bytes) ELSE bytes)
      [] encoding = "cp1256" -> CharmapChars(bytes, Cp1256)
      [] encoding = "iso-8859-6" -> CharmapChars(bytes, Iso8859_6)

\* file_path.read_text(encoding=encoding): the text, UnicodeDecodeError, or
\* the OSError of a path that cannot be read (a directory, no permission)
read_text(file, encoding) ==
    IF ~file.readable THEN Raised("OSError")
    ELSE IF "invalid" \in Range(Decoded(file.bytes, encoding)) THEN Raised("UnicodeDecodeError")
    ELSE [text |-> Decoded(file.bytes, encoding)]

\* the encodings process_file tries, in order
Encodings == <<"utf-8", "utf-8-sig", "cp1256", "iso-8859-6">>

\* the loop over the encodings inside process_file's try block
RECURSIVE EncodingLoop(_, _, _)
EncodingLoop(self, file, i) ==
    IF i > Len(Encodings) THEN [self |-> self, ret |-> FALSE]
    ELSE LET text == read_text(file, Encodings[i])
         IN  IF ~IsRaised(text)
             THEN [self |-> [CorpusProcessText(self, text.text) EXCEPT !.files_processed = @ + 1],
                   ret |-> TRUE]
             ELSE IF text.exception = "UnicodeDecodeError" THEN EncodingLoop(self, file, i + 1)
             ELSE [self |-> self, ret |-> FALSE]

\* CorpusProcessor.process_file: the processor after the call and the
\* value returned
process_file(self, file) == EncodingLoop(self, file, 1)

\* no directory at the path
NoDirectory == [exists |-> FALSE, files |-> <<>>]

\* a directory whose rglob(pattern) lists files
Directory(files) == [exists |-> TRUE, files |-> files]

\* process_directory whose loop ends at the first file that fails
RECURSIVE ProcessFilesUntilFailure(_, _, _)
ProcessFilesUntilFailure(self, files, i) ==
    IF i > Len(files) THEN self
    ELSE IF ~process_file(self, files[i]).ret THEN self
    ELSE ProcessFilesUntilFailure(process_file(self, files[i]).self, files, i + 1)

\* for i, f in enumerate(files): self.process_file(f)
RECURSIVE ProcessFiles(_, _, _)
ProcessFiles(self, files, i) ==
    IF i > Len(files) THEN self
    ELSE ProcessFiles(process_file(self, files[i]).self, files, i + 1)

process_directory_until_failure(self, dir) ==
    IF ~dir.exists THEN self ELSE ProcessFilesUntilFailure(self, dir.files, 1)

\* CorpusProcessor.process_directory: the processor after the call
process_directory(self, dir) ==
    IF ~dir.exists THEN self ELSE ProcessFiles(self, dir.files, 1)

\* no file at the path
NoFile == [exists |-> FALSE]

File(data) == [exists |-> TRUE, data |-> data]

\* for k, n in counter.items(): target[k] += n
RECURSIVE MergeCounter(_, _)
MergeCounter(target, counter) ==
    IF DOMAIN counter = {} THEN target
    ELSE LET k == CHOOSE k \in DOMAIN counter : TRUE
         IN  MergeCounter(Inc(target, k, counter[k]), [x \in (DOMAIN counter) \ {k} |-> counter[x]])

\* for k1, following in table.items(): for k2, n in following.items(): target[k1][k2] += n
RECURSIVE MergeTable(_, _)
MergeTable(target, table) ==
    IF DOMAIN table = {} THEN target
    ELSE LET k1 == CHOOSE k \in DOMAIN table : TRUE
             merged == IF k1 \in DOMAIN target
                       THEN [target EXCEPT ![k1] = MergeCounter(@, table[k1])]
                       ELSE IF DOMAIN table[k1] = {} THEN target
                       ELSE target @@ (k1 :> MergeCounter(EmptyMap, table[k1]))
         IN  MergeTable(merged, [x \in (DOMAIN table) \ {k1} |-> table[x]])

RECURSIVE SumTable(_)
SumTable(table) ==
    IF DOMAIN table = {} THEN 0
    ELSE LET k == CHOOSE k \in DOMAIN table : TRUE
         IN  SumValues(table[k]) + SumTable([x \in (DOMAIN table) \ {k} |-> table[x]])

\* data.get(key, {})
DataGet(data, key) == IF key \in DOMAIN data THEN data[key] ELSE EmptyMap

\* merge_with_existing that replaces its counts by the file's
merge_with_existing_overwrite(self, file) ==
    IF ~file.exists THEN self
    ELSE [self EXCEPT
            !.word_freq = DataGet(file.data, "word_freq") @@ @,
            !.total_words = @ + SumValues(DataGet(file.data, "word_freq")),
            !.bigrams = DataGet(file.data, "bigrams") @@ @,
            !.total_bigrams = @ + SumTable(DataGet(file.data, "bigrams")),
            !.trigrams = DataGet(file.data, "trigrams") @@ @,
            !.total_trigrams = @ + SumTable(DataGet(file.data, "trigrams"))]

\* CorpusProcessor.merge_with_existing: the processor after the merge
merge_with_existing(self, file) ==
    IF ~file.exists THEN self
    ELSE [self EXCEPT
            !.word_freq = MergeCounter(@, DataGet(file.data, "word_freq")),
            !.total_words = @ + SumValues(DataGet(file.data, "word_freq")),
            !.bigrams = MergeTable(@, DataGet(file.data, "bigrams")),
            !.total_bigrams = @ + SumTable(DataGet(file.data, "bigrams")),
            !.trigrams = MergeTable(@, DataGet(file.data, "trigrams")),
            !.total_trigrams = @ + SumTable(DataGet(file.data, "trigrams"))]

(***************************************************************************)
(* Loading a context-model snapshot: load_context_model and load_model.    *)
(* The outcome is the processor after the call and what the call returned  *)
(* or raised.                                                              *)
(***************************************************************************)
\* a file whose bytes are not a pickle
UnreadableFile == [exists |-> TRUE]

\* pickle.load(f): the pickled object, or the exception for bytes that are
\* not a pickle
pickle_load(file) ==
    IF "data" \in DOMAIN file THEN file.data ELSE Raised("UnpicklingError")

\* data.get('total_bigrams', 0)
DataGetInt(data, key) == IF key \in DOMAIN data THEN data[key] ELSE 0

\* EnhancedPostProcessor.load_context_model
load_context_model(self, file) ==
    IF ~file.exists THEN [self |-> self, ret |-> [value |-> "None"]]
    ELSE IF IsRaised(pickle_load(file)) THEN [self |-> self, ret |-> pickle_load(file)]
    ELSE [self |-> [self EXCEPT !.bigrams = DataGet(pickle_load(file), "bigrams"),
                                !.word_freq = DataGet(pickle_load(file), "word_freq"),
                                !.total_bigrams = DataGetInt(pickle_load(file), "total_bigrams")],
          ret |-> [value |-> "None"]]

\* ContextAwarePostProcessor.load_model
load_model(self, file) ==
    IF ~file.exists THEN [self |-> self, ret |-> [value |-> "False"]]
    ELSE IF IsRaised(pickle_load(file)) THEN [self |-> self, ret |-> pickle_load(file)]
    ELSE LET data == pickle_load(file)
             loaded == [self EXCEPT !.bigrams = DataGet(data, "bigrams"),
                                    !.word_freq = DataGet(data, "word_freq"),
                                    !.total_bigrams = DataGetInt(data, "total_bigrams")]
         IN  [self |-> IF "trigrams" \in DOMAIN data
                       THEN [loaded EXCEPT !.trigrams = data["trigrams"],
                                           !.total_trigrams = DataGetInt(data, "total_trigrams")]
                       ELSE loaded,
              ret |-> [value |-> "True"]]

\* the dict pickled by ContextAwarePostProcessor.save_model
context_save_model(self) ==
    [bigrams |-> self.bigrams, word_freq |-> self.word_freq, total_bigrams |-> self.total_bigrams]

(***************************************************************************)
(* Words, processors and inputs of the model                               *)
(***************************************************************************)
kitab == <<"kaf", "te", "alef", "ba">>

kitab_ar == <<"kaf_ar", "te", "alef", "ba">>

dars == <<"dal", "re", "sin">>

darb == <<"dal", "re", "ba">>

darsh == <<"dal", "re", "shin">>

kabab == <<"kaf", "ba", "alef", "ba">>

kitabi == <<"kaf", "te", "alef", "ba", "ye">>

salam == <<"sin", "lam", "alef", "mim">>

salm == <<"sin", "lam", "mim">>

\* EnhancedPostProcessor(...) with the default arguments of __init__
EnhancedPostProcessor(dictionary, word_freq, bigrams, total_bigrams) ==
    [min_word_length |-> 2, fuzzy_threshold |-> R(70), confusion_threshold |-> R(65),
     confidence_threshold |-> Rat(8, 10), context_weight |-> Rat(2, 10),
     dictionary |-> dictionary, word_freq |-> word_freq,
     bigrams |-> bigrams, total_bigrams |-> total_bigrams]

\* the processors the model starts from: no dictionary; dictionary only;
\* dictionary with a loaded context model
LoadedProcessors ==
    {EnhancedPostProcessor({}, EmptyMap, EmptyMap, 0),
     EnhancedPostProcessor({kitab, dars}, EmptyMap, EmptyMap, 0),
     EnhancedPostProcessor({kitab, dars}, EmptyMap, (kitab :> (dars :> 5)), 5),
     EnhancedPostProcessor({kitab, dars}, (dars :> 11), (dars :> (kitab :> 1)), 1)}

\* ContextAwarePostProcessor(...) with the default arguments of __init__
ContextAwarePostProcessor(dictionary, bigrams, total_bigrams, trigrams, total_trigrams) ==
    [min_word_length |-> 2, fuzzy_threshold |-> R(75), context_weight |-> Rat(3, 10),
     max_candidates |-> 10, dictionary |-> dictionary, word_freq |-> EmptyMap,
     bigrams |-> bigrams, trigrams |-> trigrams,
     total_bigrams |-> total_bigrams, total_trigrams |-> total_trigrams]

LoadedContextProcessors ==
    {ContextAwarePostProcessor({}, EmptyMap, 0, EmptyMap, 0),
     ContextAwarePostProcessor({kitab, dars}, EmptyMap, 0, EmptyMap, 0),
     ContextAwarePostProcessor({kitab, dars}, (kitab :> (dars :> 5)), 5,
                               (TrigramKey(dars, dars) :> (kitab :> 1)), 1)}

OcrWords == {kitab, kitab_ar, dars, darb, darsh, salm, <<"dal">>}

Neighbours == {None, dars, kitab, <<"dal", "re", "sin", "dot">>}

\* None, or one confidence per character: all high, or all low
Confidences(word) ==
    {<<>>, [i \in DOMAIN word |-> Rat(9, 10)], [i \in DOMAIN word |-> Rat(5, 10)]}

RECURSIVE Flatten(_)
Flatten(pieces) == IF pieces = <<>> THEN <<>> ELSE Head(pieces) \o Flatten(Tail(pieces))

TextWords == {kitab, dars, kitab_ar}

\* texts: words each followed by a space, and single whitespace characters,
\* optionally ended by a word
Texts ==
    {Flatten(ps) \o last :
        ps \in Words({w \o <<"sp">> : w \in TextWords} \cup {<<"sp">>, <<"nl">>}, MaxTextPieces),
        last \in {<<>>} \cup TextWords}

\* texts of process_with_confidence: up to MaxConfWords words, single-spaced
ConfTexts == {join(ws) : ws \in Words({kitab_ar, dars}, MaxConfWords)}

\* one word's confidences: none, too few, one per character of a 4-letter
\* word (low, high)
WordConfidences ==
    {<<>>, <<Rat(5, 10)>>, [i \in 1..4 |-> Rat(5, 10)], [i \in 1..4 |-> Rat(9, 10)]}

ConfidenceLists == Words(WordConfidences, MaxConfWords)

NoCall == [op |-> "none", args |-> <<>>, ret |-> <<>>]

(***************************************************************************)
(* Spec: correction calls on a loaded processor                            *)
(***************************************************************************)
Init ==
    /\ FUZZY_LIB \in {"rapidfuzz", "None"}
    /\ pp \in LoadedProcessors
    /\ cap \in LoadedContextProcessors
    /\ cp = FreshCP
    /\ disk = NoFile
    /\ call = NoCall

FindCandidates ==
    /\ call.op = "none"
    /\ \E word \in OcrWords : \E char_confidences \in Confidences(word) :
       \E max_candidates \in {1, DefaultMaxCandidates} :
       \E r \in find_candidates(pp, FUZZY_LIB, word, char_confidences, max_candidates) :
               /\ call' = [op |-> "find_candidates",
                           args |-> [word |-> word, char_confidences |-> char_confidences,
                                     max_candidates |-> max_candidates],
                           ret |-> r]
               /\ UNCHANGED <<FUZZY_LIB, pp, cap, cp, disk>>

CorrectWord ==
    /\ call.op = "none"
    /\ \E word \in OcrWords : \E char_confidences \in Confidences(word) :
       \E prev_word \in Neighbours : \E next_word \in Neighbours :
       \E r \in correct_word(pp, FUZZY_LIB, word, char_confidences, prev_word, next_word) :
               /\ call' = [op |-> "correct_word",
                           args |-> [word |-> word, char_confidences |-> char_confidences,
                                     prev_word |-> prev_word, next_word |-> next_word],
                           ret |-> r]
               /\ UNCHANGED <<FUZZY_LIB, pp, cap, cp, disk>>

ProcessText ==
    /\ call.op = "none"
    /\ \E text \in Texts : \E r \in process_text(pp, FUZZY_LIB, text) :
               /\ call' = [op |-> "process_text", args |-> [text |-> text], ret |-> r]
               /\ UNCHANGED <<FUZZY_LIB, pp, cap, cp, disk>>

ProcessWithConfidence ==
    /\ call.op = "none"
    /\ \E text \in ConfTexts : \E char_confidences \in ConfidenceLists :
       \E r \in process_with_confidence(pp, FUZZY_LIB, text, char_confidences) :
               /\ call' = [op |-> "process_with_confidence",
                           args |-> [text |-> text, char_confidences |-> char_confidences],
                           ret |-> r]
               /\ UNCHANGED <<FUZZY_LIB, pp, cap, cp, disk>>

GetCandidates ==
    /\ call.op = "none"
    /\ \E word \in OcrWords : \E r \in get_candidates(cap, FUZZY_LIB, word) :
               /\ call' = [op |-> "get_candidates", args |-> [word |-> word], ret |-> r]
               /\ UNCHANGED <<FUZZY_LIB, pp, cap, cp, disk>>

CorrectWordWithContext ==
    /\ call.op = "none"
    /\ \E word \in OcrWords : \E prev_word \in Neighbours : \E next_word \in Neighbours :
       \E prev_prev_word \in {None, dars} :
       \E r \in correct_word_with_context(cap, FUZZY_LIB, word, prev_word, next_word, prev_prev_word) :
               /\ call' = [op |-> "correct_word_with_context",
                           args |-> [word |-> word, prev_word |-> prev_word, next_word |-> next_word,
                                     prev_prev_word |-> prev_prev_word],
                           ret |-> r]
               /\ UNCHANGED <<FUZZY_LIB, pp, cap, cp, disk>>

ContextProcessText ==
    /\ call.op = "none"
    /\ \E text \in Texts : \E r \in CapProcessText(cap, FUZZY_LIB, text) :
               /\ call' = [op |-> "context.process_text", args |-> [text |-> text], ret |-> r]
               /\ UNCHANGED <<FUZZY_LIB, pp, cap, cp, disk>>

\* the caller takes the result; the processor is ready for the next call
Return ==
    /\ call.op # "none"
    /\ call' = NoCall
    /\ UNCHANGED <<FUZZY_LIB, pp, cap, cp, disk>>

Next ==
    \/ FindCandidates
    \/ CorrectWord
    \/ ProcessText
    \/ ProcessWithConfidence
    \/ GetCandidates
    \/ CorrectWordWithContext
    \/ ContextProcessText
    \/ Return

Spec == Init /\ [][Next]_vars

(***************************************************************************)
(* Claims on Spec                                                          *)
(***************************************************************************)
IsCorrectWord == call.op = "correct_word"

IsCorrectWordWithContext == call.op = "correct_word_with_context"

\* C1: the per-word decision has two outcomes: a call that returns
\* was_corrected = False returns the input word itself, and a call that
\* returns was_corrected = True returns a different word whose combined
\* score reached the acceptance threshold.
C1_TwoOutcomes ==
    /\ IsCorrectWord =>
          /\ ~call.ret.was_corrected => call.ret.word = call.args.word
          /\ call.ret.was_corrected =>
                /\ call.ret.word # call.args.word
                /\ RLe(AcceptanceThreshold(pp, call.args.char_confidences), call.ret.info.final_score)
    /\ IsCorrectWordWithContext =>
          /\ ~call.ret.was_corrected => call.ret.word = call.args.word
          /\ call.ret.was_corrected =>
                /\ call.ret.word # call.args.word
                /\ RLe(cap.fuzzy_threshold, call.ret.info.combined)

AllInDictionary(words, dictionary) == \A i \in DOMAIN words : words[i] \in dictionary

\* a text whose only whitespace is one space between consecutive words
SingleSpaced(text) ==
    /\ \A i \in DOMAIN text : text[i] # "nl"
    /\ text # <<>> => text[1] # "sp" /\ text[Len(text)] # "sp"
    /\ \A i \in 1..(Len(text) - 1) : ~(text[i] = "sp" /\ text[i + 1] = "sp")

IsProcessTextOfKnownWords ==
    \/ call.op = "process_text" /\ AllInDictionary(split(call.args.text), pp.dictionary)
    \/ call.op = "context.process_text" /\ AllInDictionary(split(call.args.text), cap.dictionary)

\* C2 as stated: process_text of a text whose words are all in the
\* dictionary returns the text unchanged, with no corrections.
C2_TextUnchanged ==
    IsProcessTextOfKnownWords =>
        call.ret.text = call.args.text /\ call.ret.corrections = <<>>

\* C2 (amended): process_text of a text whose words are all in the
\* dictionary returns the same words in the same order separated by single
\* spaces, with no corrections; the text itself when it is single-spaced.
C2_WordsUnchanged ==
    IsProcessTextOfKnownWords =>
        /\ split(call.ret.text) = split(call.args.text)
        /\ SingleSpaced(call.ret.text)
        /\ SingleSpaced(call.args.text) => call.ret.text = call.args.text
        /\ call.ret.corrections = <<>>

C2_Witness ==
    /\ call.op = "process_text"
    /\ pp.dictionary # {}
    /\ call.args.text = kitab \o <<"sp">> \o dars
    /\ call.ret.text = call.args.text

\* C3 as stated: with an empty dictionary correct_word returns
\* (word, False, {'source': 'no_dict'}).
C3_NoDictInfo ==
    IsCorrectWord /\ pp.dictionary = {} =>
        /\ call.ret.word = call.args.word
        /\ ~call.ret.was_corrected
        /\ call.ret.info.source = "no_dict"

\* C3 (amended): with an empty dictionary correct_word returns
\* (word, False, None) for every word, confidence list and neighbours; the
\* 'no_dict' marker is only in the list find_candidates returns.
C3_NoDictNone ==
    /\ IsCorrectWord /\ pp.dictionary = {} =>
          call.ret = [word |-> call.args.word, was_corrected |-> FALSE, info |-> NoneInfo]
    /\ call.op = "find_candidates" /\ pp.dictionary = {} =>
          call.ret = <<Cand(call.args.word, R(100), "no_dict")>>

C3_Witness ==
    /\ IsCorrectWord
    /\ pp.dictionary = {}
    /\ call.args.word = kitab_ar
    /\ call.args.char_confidences # <<>>
    /\ call.args.prev_word = dars
    /\ call.ret.word = kitab_ar

\* C4: for a word in a non-empty dictionary the candidate generator returns
\* the one-element list [(word, 100)] from its early return, whatever the
\* confidences.
C4_InDictionarySoleCandidate ==
    /\ call.op = "find_candidates" /\ call.args.word \in pp.dictionary =>
          call.ret = <<[text |-> call.args.word, score |-> R(100), source |-> "in_dict",
                        confidence_boost |-> 0, freq_bonus |-> 0]>>
    /\ call.op = "get_candidates" /\ call.args.word \in cap.dictionary =>
          call.ret = <<[text |-> call.args.word, score |-> R(100)]>>

C4_Witness ==
    /\ call.op = "find_candidates"
    /\ call.args.word = dars
    /\ dars \in pp.dictionary
    /\ CounterGet(pp.word_freq, dars) > 10
    /\ call.args.char_confidences = [i \in 1..3 |-> Rat(5, 10)]
    /\ FUZZY_LIB = "rapidfuzz"

\* the processor of the scenario of C9
KitabDarsProcessor == EnhancedPostProcessor({kitab, dars}, EmptyMap, (kitab :> (dars :> 5)), 5)

\* C9: dictionary {kitab, dars}, bigrams {kitab: {dars: 5}}: for the word
\* kitab written with the Arabic kaf, find_candidates proposes kitab from
\* the confusion-variant path with confusion_similarity >= 90, and
\* correct_word with no left neighbour and right neighbour dars returns
\* kitab with was_corrected = True.
C9_KitabScenario ==
    /\ call.op = "find_candidates" /\ pp = KitabDarsProcessor /\ call.args.word = kitab_ar =>
          \E i \in DOMAIN call.ret :
              /\ call.ret[i].text = kitab
              /\ call.ret[i].source = "confusion_variant"
              /\ RLe(R(90), call.ret[i].score)
              /\ RLe(R(90), confusion_similarity(kitab_ar, call.ret[i].text))
    /\ IsCorrectWord /\ pp = KitabDarsProcessor /\ call.args.word = kitab_ar
       /\ call.args.prev_word = None /\ call.args.next_word = dars =>
          call.ret.word = kitab /\ call.ret.was_corrected

C9_Witness ==
    /\ IsCorrectWord
    /\ pp = KitabDarsProcessor
    /\ call.args.word = kitab_ar
    /\ call.args.char_confidences = <<>>
    /\ call.args.prev_word = None
    /\ call.args.next_word = dars
    /\ call.ret.was_corrected
    /\ call.ret.info.source = "confusion_variant"
    /\ call.ret.info.final_score = R(94)

(***************************************************************************)
(* C11: whenever the number of confidence lists differs from the number of *)
(* words of the text, process_with_confidence returns what process_text    *)
(* returns for the text (same text, same correction log), and does not     *)
(* fail.                                                                   *)
(***************************************************************************)
IsProcessWithConfidence == call.op = "process_with_confidence"

AlignmentMismatch ==
    /\ IsProcessWithConfidence
    /\ Len(call.args.char_confidences) # Len(split(call.args.text))

C11_MismatchFallsBack ==
    AlignmentMismatch =>
        /\ ~IsRaised(call.ret)
        /\ call.ret \in process_text(pp, FUZZY_LIB, call.args.text)
        /\ process_with_confidence(pp, FUZZY_LIB, call.args.text, call.args.char_confidences)
               = process_text(pp, FUZZY_LIB, call.args.text)

\* a mismatched call (fewer lists than words) that corrected a word
C11_Witness ==
    /\ AlignmentMismatch
    /\ Len(call.args.char_confidences) = 1
    /\ Len(split(call.args.text)) = 2
    /\ ~IsRaised(call.ret)
    /\ call.ret.corrections # <<>>

(***************************************************************************)
(* C12: process_text and process_with_confidence return a (text, log)      *)
(* pair and never end with an exception, for every text and every list of  *)
(* confidence lists (any count, empty lists, lists whose length is not the *)
(* word's), with any dictionary and context model.                         *)
(***************************************************************************)
C12_NoException ==
    call.op \in {"process_text", "process_with_confidence"} =>
        /\ ~IsRaised(call.ret)
        /\ DOMAIN call.ret = {"text", "corrections"}

\* aligned confidences, the corrected first word with an empty list and the
\* second with a list shorter than the word
C12_Witness ==
    /\ IsProcessWithConfidence
    /\ ~AlignmentMismatch
    /\ call.args.char_confidences = <<<<>>, <<Rat(5, 10)>>>>
    /\ ~IsRaised(call.ret)
    /\ Len(call.ret.corrections) = 1
    /\ call.ret.corrections[1].word_confidence = NoneFloat

(***************************************************************************)
(* SpecContext: a processor with a dictionary loads the context-model      *)
(* snapshot found on disk and scores words in context                      *)
(***************************************************************************)
\* the snapshot on disk: absent, not a pickle, written by
\* CorpusProcessor.save_model, written by ContextAwarePostProcessor.save_model
SnapshotFiles ==
    {NoFile,
     UnreadableFile,
     File(save_model(CorpusProcessText(FreshCP, join(<<kitab, dars, kitab>>)))),
     File(context_save_model(ContextAwarePostProcessor({kitab, dars}, (kitab :> (dars :> 5)), 5,
                                                       EmptyMap, 0)))}

ScoredWords == {kitab, dars, darb, <<"dot">>}

InitContext ==
    /\ FUZZY_LIB = "None"
    /\ pp = EnhancedPostProcessor({kitab, dars}, EmptyMap, EmptyMap, 0)
    /\ cap = ContextAwarePostProcessor({kitab, dars}, EmptyMap, 0, EmptyMap, 0)
    /\ cp = FreshCP
    /\ disk \in SnapshotFiles
    /\ call = NoCall

LoadContextModel ==
    /\ call.op = "none"
    /\ pp' = load_context_model(pp, disk).self
    /\ call' = [op |-> "load_context_model", args |-> [file |-> disk],
                ret |-> load_context_model(pp, disk).ret]
    /\ UNCHANGED <<FUZZY_LIB, cap, cp, disk>>

LoadModel ==
    /\ call.op = "none"
    /\ cap' = load_model(cap, disk).self
    /\ call' = [op |-> "load_model", args |-> [file |-> disk], ret |-> load_model(cap, disk).ret]
    /\ UNCHANGED <<FUZZY_LIB, pp, cp, disk>>

GetContextScore ==
    /\ call.op = "none"
    /\ \E word \in ScoredWords : \E prev_word \in Neighbours : \E next_word \in Neighbours :
           /\ call' = [op |-> "get_context_score",
                       args |-> [prev_word |-> prev_word, word |-> word, next_word |-> next_word],
                       ret |-> get_context_score(pp, prev_word, word, next_word)]
           /\ UNCHANGED <<FUZZY_LIB, pp, cap, cp, disk>>

GetBigramScore ==
    /\ call.op = "none"
    /\ \E word \in ScoredWords : \E prev_word \in Neighbours : \E next_word \in Neighbours :
       \E prev_prev_word \in {None, kitab} :
           /\ call' = [op |-> "get_bigram_score",
                       args |-> [prev_word |-> prev_word, word |-> word, next_word |-> next_word,
                                 prev_prev_word |-> prev_prev_word],
                       ret |-> get_bigram_score(cap, prev_word, word, next_word, prev_prev_word)]
           /\ UNCHANGED <<FUZZY_LIB, pp, cap, cp, disk>>

NextContext ==
    \/ LoadContextModel
    \/ LoadModel
    \/ GetContextScore
    \/ GetBigramScore
    \/ Return

SpecContext == InitContext /\ [][NextContext]_vars

(***************************************************************************)
(* C13: loading a context-model snapshot never raises: for an absent file  *)
(* and for a present but unreadable one the load returns and the processor *)
(* keeps an empty context model, so that every context score is the        *)
(* neutral 50.                                                             *)
(***************************************************************************)
IsLoad == call.op \in {"load_context_model", "load_model"}

C13_LoadNeverRaises ==
    /\ IsLoad => ~IsRaised(call.ret)
    /\ disk \in {NoFile, UnreadableFile} =>
          /\ pp.total_bigrams = 0 /\ cap.total_bigrams = 0
          /\ call.op \in {"get_context_score", "get_bigram_score"} => call.ret = R(50)

(***************************************************************************)
(* C18: the context scorers return exactly 50 when the context model is   *)
(* empty or both neighbours are missing; with one neighbour missing the    *)
(* score is below 50 only if the remaining neighbour has observed context: *)
(* the previous word (get_bigram_score: or the pair before the word) is a  *)
(* key of the model, or the word is a key and the next word is given.      *)
(***************************************************************************)
\* the word as the code normalises it, None for a missing word
NormOf(self, w, outside) ==
    IF Truthy(w) /\ Len(StripEdges(w, outside)) >= self.min_word_length
    THEN StripEdges(w, outside) ELSE None

\* the remaining neighbours of the call have observed context in the model
ObservedContext(self, outside, a) ==
    \/ /\ a.prev_word # None
       /\ NormOf(self, a.prev_word, outside) \in DOMAIN self.bigrams
    \/ /\ a.next_word # None
       /\ NormOf(self, a.word, outside) \in DOMAIN self.bigrams
    \/ /\ "prev_prev_word" \in DOMAIN a
       /\ a.prev_word # None
       /\ a.prev_prev_word # None
       /\ TrigramKey(NormOf(self, a.prev_prev_word, outside), NormOf(self, a.prev_word, outside))
              \in DOMAIN self.trigrams

NeutralWhenMissing(self, outside) ==
    /\ (self.total_bigrams = 0 \/ (call.args.prev_word = None /\ call.args.next_word = None))
           => call.ret = R(50)
    /\ ((call.args.prev_word = None \/ call.args.next_word = None) /\ RLt(call.ret, R(50)))
           => ObservedContext(self, outside, call.args)

C18_MissingNeighbourNeutral ==
    /\ call.op = "get_context_score" => NeutralWhenMissing(pp, NonArabic)
    /\ call.op = "get_bigram_score" => NeutralWhenMissing(cap, NonWord)

\* a loaded, non-empty model and a word with both neighbours missing
C18_Witness ==
    /\ call.op = "get_context_score"
    /\ pp.total_bigrams > 0
    /\ call.args.word = kitab
    /\ call.args.prev_word = None
    /\ call.args.next_word = None
    /\ call.ret = R(50)

(***************************************************************************)
(* C17: process_text decides every word from the original tokens: the      *)
(* output at position i is correct_word of words[i] with the original      *)
(* words[i-1] and words[i+1] (and the original words[i-2] in the           *)
(* trigram-aware corrector), whatever happened at the other positions.     *)
(***************************************************************************)
\* the original token at position i, None outside the text
OriginalAt(words, i) == IF i >= 1 /\ i <= Len(words) THEN words[i] ELSE None

\* the decisions of correct_word at each position, taken independently
Decisions(words) ==
    {f \in [DOMAIN words ->
              UNION {correct_word(pp, FUZZY_LIB, words[i], <<>>,
                                  OriginalAt(words, i - 1), OriginalAt(words, i + 1)) :
                        i \in DOMAIN words}] :
        \A i \in DOMAIN words :
            f[i] \in correct_word(pp, FUZZY_LIB, words[i], <<>>,
                                  OriginalAt(words, i - 1), OriginalAt(words, i + 1))}

ContextDecisions(words) ==
    {f \in [DOMAIN words ->
              UNION {correct_word_with_context(cap, FUZZY_LIB, words[i], OriginalAt(words, i - 1),
                                               OriginalAt(words, i + 1), OriginalAt(words, i - 2)) :
                        i \in DOMAIN words}] :
        \A i \in DOMAIN words :
            f[i] \in correct_word_with_context(cap, FUZZY_LIB, words[i], OriginalAt(words, i - 1),
                                               OriginalAt(words, i + 1), OriginalAt(words, i - 2))}

\* the log of the decisions f from position i on
RECURSIVE LogFrom(_, _, _)
LogFrom(words, f, i) ==
    IF i > Len(words) THEN <<>>
    ELSE (IF f[i].was_corrected /\ f[i].info # NoneInfo
          THEN <<[original |-> words[i], corrected |-> f[i].word, info |-> f[i].info]>>
          ELSE <<>>) \o LogFrom(words, f, i + 1)

RECURSIVE ContextLogFrom(_, _, _)
ContextLogFrom(words, f, i) ==
    IF i > Len(words) THEN <<>>
    ELSE (IF f[i].was_corrected THEN <<f[i].info>> ELSE <<>>) \o ContextLogFrom(words, f, i + 1)

C17_OriginalNeighbours ==
    /\ call.op = "process_text" =>
          LET words == split(call.args.text)
          IN  \E f \in Decisions(words) :
                  /\ call.ret.text = join([i \in DOMAIN words |-> f[i].word])
                  /\ call.ret.corrections = LogFrom(words, f, 1)
    /\ call.op = "context.process_text" =>
          LET words == split(call.args.text)
          IN  \E f \in ContextDecisions(words) :
                  /\ call.ret.text = join([i \in DOMAIN words |-> f[i].word])
                  /\ call.ret.corrections = ContextLogFrom(words, f, 1)

\* two corrected words: the second was decided with the first as the OCR
\* read it, not as it was corrected, where the model knows only the
\* corrected form
C17_Witness ==
    /\ call.op = "process_text"
    /\ pp.total_bigrams > 0
    /\ Len(call.ret.corrections) = 2
    /\ call.ret.corrections[1].corrected # call.ret.corrections[1].original
    /\ call.ret.corrections[2].info.prev_word = call.ret.corrections[1].original
    /\ call.ret.corrections[1].corrected \in DOMAIN pp.bigrams
    /\ call.ret.corrections[1].original \notin DOMAIN pp.bigrams

(***************************************************************************)
(* SpecConcurrent: threads that call the correction operations on one      *)
(* loaded processor at the same time.  A call on a text runs one word per  *)
(* step, so the calls of different threads interleave between words; each  *)
(* step reads the shared processor as it is at that moment and leaves it   *)
(* as the code of the step leaves it.                                      *)
(***************************************************************************)
Threads == {"t1", "t2"}

\* self.bigrams[key] on a defaultdict without the test "key in self.bigrams":
\* a missing key is inserted with an empty Counter
BigramsAfterLookupUnguarded(bigrams, key) ==
    IF key \in DOMAIN bigrams THEN bigrams ELSE bigrams @@ (key :> EmptyMap)

\* "if key in self.bigrams: following = self.bigrams[key]": the table after it
BigramsAfterLookup(bigrams, key) == bigrams

RECURSIVE AfterLookups(_, _)
AfterLookups(bigrams, keys) ==
    IF keys = {} THEN bigrams
    ELSE LET k == CHOOSE k \in keys : TRUE
         IN  AfterLookups(BigramsAfterLookup(bigrams, k), keys \ {k})

\* the keys that get_context_score / get_bigram_score look up in self.bigrams
LookupKeys(self, outside, prev_word, word, next_word) ==
    IF self.total_bigrams = 0 THEN {}
    ELSE LET norm(w) == IF Len(StripEdges(w, outside)) >= self.min_word_length
                        THEN StripEdges(w, outside) ELSE None
         IN  (IF Truthy(prev_word) /\ Truthy(norm(prev_word)) THEN {norm(prev_word)} ELSE {})
             \cup (IF Truthy(next_word) /\ Truthy(word) /\ Truthy(norm(word))
                   THEN {norm(word)} ELSE {})

\* the candidate texts that correct_word scores in context
ScoredCandidates(self, lib, word, char_confidences) ==
    IF Len(word) < self.min_word_length \/ word \in self.dictionary THEN {}
    ELSE UNION {IF candidates = <<>> \/ candidates[1].score = R(0) THEN {}
                ELSE {candidates[i].text : i \in DOMAIN candidates} :
                   candidates \in find_candidates(self, lib, word, char_confidences,
                                                  DefaultMaxCandidates)}

\* the processor after correct_word(word, char_confidences, prev_word, next_word)
AfterCorrectWord(self, lib, word, char_confidences, prev_word, next_word) ==
    [self EXCEPT !.bigrams =
        AfterLookups(@, UNION {LookupKeys(self, NonArabic, prev_word, c, next_word) :
                                  c \in ScoredCandidates(self, lib, word, char_confidences)})]

\* the processor after score_hypothesis(text)
AfterScoreHypothesis(self, text) ==
    [self EXCEPT !.bigrams =
        AfterLookups(@, UNION {LookupKeys(self, NonArabic, split(text)[i], split(text)[i + 1],
                                          WordAt(split(text), i + 2)) :
                                  i \in 1..(Len(split(text)) - 1)})]

\* the calls a thread may make
Requests ==
    {[op |-> "process_text", text |-> join(<<kitab_ar, dars>>)],
     [op |-> "process_text", text |-> join(<<kitab_ar, kitab_ar>>)],
     [op |-> "process_with_confidence", text |-> join(<<kitab_ar, dars>>),
      char_confidences |-> <<[i \in 1..4 |-> Rat(5, 10)], <<>>>>],
     [op |-> "process_with_confidence", text |-> join(<<kitab_ar, dars>>),
      char_confidences |-> <<[i \in 1..4 |-> Rat(5, 10)]>>],
     [op |-> "correct_word", word |-> kitab_ar, char_confidences |-> <<>>,
      prev_word |-> None, next_word |-> dars],
     [op |-> "find_candidates", word |-> kitab_ar, char_confidences |-> <<>>],
     [op |-> "get_context_score", prev_word |-> None, word |-> kitab, next_word |-> dars],
     [op |-> "get_bigram_score", prev_word |-> None, word |-> dars, next_word |-> dars],
     [op |-> "score_hypothesis", text |-> join(<<kitab, dars>>)]}

OnText(req) == req.op \in {"process_text", "process_with_confidence"}

\* the number of steps of the call
Steps(req) == IF OnText(req) THEN Len(split(req.text)) ELSE 1

\* the confidences that step i of the call passes to correct_word
StepConfidences(req, i) ==
    IF req.op = "process_with_confidence"
       /\ Len(req.char_confidences) = Len(split(req.text))
    THEN req.char_confidences[i] ELSE <<>>

\* the possible results of step i of the call on the processors as they are
StepResults(self, capself, lib, req, i) ==
    IF OnText(req)
    THEN correct_word(self, lib, split(req.text)[i], StepConfidences(req, i),
                      WordAt(split(req.text), i - 1), WordAt(split(req.text), i + 1))
    ELSE IF req.op = "correct_word"
    THEN correct_word(self, lib, req.word, req.char_confidences, req.prev_word, req.next_word)
    ELSE IF req.op = "find_candidates"
    THEN find_candidates(self, lib, req.word, req.char_confidences, DefaultMaxCandidates)
    ELSE IF req.op = "get_context_score"
    THEN {get_context_score(self, req.prev_word, req.word, req.next_word)}
    ELSE IF req.op = "get_bigram_score"
    THEN {get_bigram_score(capself, req.prev_word, req.word, req.next_word, None)}
    ELSE {score_hypothesis(self, req.text, R(50))}

\* the EnhancedPostProcessor after step i of the call
AfterStep(self, lib, req, i) ==
    IF OnText(req)
    THEN AfterCorrectWord(self, lib, split(req.text)[i], StepConfidences(req, i),
                          WordAt(split(req.text), i - 1), WordAt(split(req.text), i + 1))
    ELSE IF req.op = "correct_word"
    THEN AfterCorrectWord(self, lib, req.word, req.char_confidences, req.prev_word, req.next_word)
    ELSE IF req.op = "get_context_score"
    THEN [self EXCEPT !.bigrams =
             AfterLookups(@, LookupKeys(self, NonArabic, req.prev_word, req.word, req.next_word))]
    ELSE IF req.op = "score_hypothesis" THEN AfterScoreHypothesis(self, req.text)
    ELSE self

\* the ContextAwarePostProcessor after step i of the call
ContextAfterStep(capself, req, i) ==
    IF req.op = "get_bigram_score"
    THEN [capself EXCEPT !.bigrams =
             AfterLookups(@, LookupKeys(capself, NonWord, req.prev_word, req.word, req.next_word))]
    ELSE capself

\* the log that the loop of the call builds from the decisions acc
RECURSIVE StepLog(_, _, _)
StepLog(req, acc, i) ==
    IF i > Len(acc) THEN <<>>
    ELSE (IF acc[i].was_corrected /\ acc[i].info # NoneInfo
          THEN IF req.op = "process_with_confidence"
                  /\ Len(req.char_confidences) = Len(split(req.text))
               THEN <<[original |-> split(req.text)[i], corrected |-> acc[i].word,
                       word_confidence |-> word_confidence(req.char_confidences[i]),
                       info |-> acc[i].info]>>
               ELSE <<[original |-> split(req.text)[i], corrected |-> acc[i].word,
                       info |-> acc[i].info]>>
          ELSE <<>>) \o StepLog(req, acc, i + 1)

\* what the call returns after its steps
StepReturn(req, acc) ==
    IF OnText(req)
    THEN [text |-> join([i \in DOMAIN acc |-> acc[i].word]), corrections |-> StepLog(req, acc, 1)]
    ELSE acc[1]

Idle == [pc |-> "idle", req |-> [op |-> "none"], acc |-> <<>>]

InitConcurrent ==
    /\ FUZZY_LIB \in {"rapidfuzz", "None"}
    /\ pp \in {EnhancedPostProcessor({kitab, dars}, EmptyMap, (dars :> (dars :> 5)), 5),
               EnhancedPostProcessor({kitab, dars}, (dars :> 11), (dars :> (kitab :> 1)), 1)}
    /\ cap = ContextAwarePostProcessor({kitab, dars}, (kitab :> (dars :> 5)), 5, EmptyMap, 0)
    /\ cp = FreshCP
    /\ disk = NoFile
    /\ call = [op |-> "concurrent", loaded |-> [pp |-> pp, cap |-> cap],
               threads |-> [t \in Threads |-> Idle]]

\* thread t starts a call
Begin(t) ==
    /\ call.threads[t].pc = "idle"
    /\ \E req \in Requests :
           call' = [call EXCEPT !.threads[t] = [pc |-> "running", req |-> req, acc |-> <<>>]]
    /\ UNCHANGED <<FUZZY_LIB, pp, cap, cp, disk>>

\* thread t runs the next step of its call
Step(t) ==
    LET th == call.threads[t]
        i  == Len(th.acc) + 1
    IN  /\ th.pc = "running"
        /\ i <= Steps(th.req)
        /\ \E r \in StepResults(pp, cap, FUZZY_LIB, th.req, i) :
               call' = [call EXCEPT !.threads[t].acc = Append(@, r)]
        /\ pp' = AfterStep(pp, FUZZY_LIB, th.req, i)
        /\ cap' = ContextAfterStep(cap, th.req, i)
        /\ UNCHANGED <<FUZZY_LIB, cp, disk>>

\* the call of thread t returns
Finish(t) ==
    /\ call.threads[t].pc = "running"
    /\ Len(call.threads[t].acc) = Steps(call.threads[t].req)
    /\ call' = [call EXCEPT !.threads[t].pc = "done"]
    /\ UNCHANGED <<FUZZY_LIB, pp, cap, cp, disk>>

\* thread t takes the result and is ready for its next call
Collect(t) ==
    /\ call.threads[t].pc = "done"
    /\ call' = [call EXCEPT !.threads[t] = Idle]
    /\ UNCHANGED <<FUZZY_LIB, pp, cap, cp, disk>>

NextConcurrent ==
    \E t \in Threads :
        \/ Begin(t)
        \/ Step(t)
        \/ Finish(t)
        \/ Collect(t)

SpecConcurrent == InitConcurrent /\ [][NextConcurrent]_vars

(***************************************************************************)
(* C19: no correction operation changes the shared processor (dictionary,  *)
(* word_freq, bigrams, trigrams, totals), so every call of concurrently    *)
(* running threads returns what the same call returns when it runs alone   *)
(* on the loaded processor.                                                *)
(***************************************************************************)
\* the possible results of the call when it runs alone on the processors
Alone(self, capself, lib, req) ==
    IF req.op = "process_text" THEN process_text(self, lib, req.text)
    ELSE IF req.op = "process_with_confidence"
    THEN process_with_confidence(self, lib, req.text, req.char_confidences)
    ELSE StepResults(self, capself, lib, req, 1)

C19_NoSharedMutation ==
    /\ pp = call.loaded.pp
    /\ cap = call.loaded.cap
    /\ \A t \in Threads :
          call.threads[t].pc = "done" =>
              StepReturn(call.threads[t].req, call.threads[t].acc)
                  \in Alone(call.loaded.pp, call.loaded.cap, FUZZY_LIB, call.threads[t].req)

\* one thread has returned from process_text while the other is between the
\* two words of its own text
C19_Witness ==
    /\ call.threads["t1"].pc = "done"
    /\ call.threads["t1"].req.op = "process_text"
    /\ call.threads["t1"].acc[1].was_corrected
    /\ call.threads["t2"].pc = "running"
    /\ OnText(call.threads["t2"].req)
    /\ Len(call.threads["t2"].acc) = 1

(***************************************************************************)
(* SpecCandidates: find_candidates on a dictionary with several close      *)
(* words, with and without word frequencies                                *)
(***************************************************************************)
CandidateProcessors ==
    {EnhancedPostProcessor({kitab, kabab, kitabi, salam}, word_freq, EmptyMap, 0) :
        word_freq \in {EmptyMap, (kabab :> 11), (kabab :> 101)}}

InitCandidates ==
    /\ FUZZY_LIB \in {"rapidfuzz", "None"}
    /\ pp \in CandidateProcessors
    /\ cap = ContextAwarePostProcessor({}, EmptyMap, 0, EmptyMap, 0)
    /\ cp = FreshCP
    /\ disk = NoFile
    /\ call = NoCall

NextCandidates ==
    \/ FindCandidates
    \/ Return

SpecCandidates == InitCandidates /\ [][NextCandidates]_vars

\* a call of find_candidates that went through the search of lines 353-437
IsCandidateSearch ==
    /\ call.op = "find_candidates"
    /\ pp.dictionary # {}
    /\ call.args.word \notin pp.dictionary

(***************************************************************************)
(* C14: for a word not in the dictionary the list returned by              *)
(* find_candidates is in non-increasing order of final score (after        *)
(* confidence boost and frequency bonus), has at most max_candidates       *)
(* entries, and is the single entry (word, 0) exactly when no candidate    *)
(* survives.                                                               *)
(***************************************************************************)
C14_SortedCappedSentinel ==
    IsCandidateSearch =>
        /\ \A i \in 1..(Len(call.ret) - 1) : RLe(call.ret[i + 1].score, call.ret[i].score)
        /\ Len(call.ret) <= call.args.max_candidates
        /\ Len(call.ret) >= 1
        /\ (\E i \in DOMAIN call.ret : call.ret[i].source = "no_match")
               <=> call.ret = <<Cand(call.args.word, R(0), "no_match")>>

(***************************************************************************)
(* C15: each candidate text appears at most once in the result of          *)
(* find_candidates and carries the maximum of the scores that the          *)
(* confusion-variant path and the fuzzy-match path assign to it (seen on   *)
(* calls without confidences, on candidates without frequency bonus).      *)
(***************************************************************************)
\* the scores the two paths assign to the candidate text c of the word
PathScores(self, lib, word, c) ==
    (IF c \in AllVariants(word) THEN {confusion_similarity(word, c)} ELSE {})
    \cup (IF lib # "None"
          THEN {RAdd(RMul(Rat(4, 10), fuzz_ratio(word, c)),
                     RMul(Rat(6, 10), confusion_similarity(word, c)))}
          ELSE {})

C15_OnceWithMaximumScore ==
    (IsCandidateSearch /\ call.args.char_confidences = <<>>) =>
        /\ \A i, j \in DOMAIN call.ret : call.ret[i].text = call.ret[j].text => i = j
        /\ \A i \in DOMAIN call.ret :
              (call.ret[i].source # "no_match" /\ call.ret[i].freq_bonus = 0) =>
                  \A x \in PathScores(pp, FUZZY_LIB, call.args.word, call.ret[i].text) :
                      RLe(x, call.ret[i].score)

(***************************************************************************)
(* C27: the frequency bonus of find_candidates is tiered: 5 for a          *)
(* candidate whose word_freq is above 100, 3 for one in 11..100, 0 for any *)
(* other; the final score is at most 100.                                  *)
(***************************************************************************)
C27_TieredFrequencyBonus ==
    IsCandidateSearch =>
        \A i \in DOMAIN call.ret :
            call.ret[i].source # "no_match" =>
                /\ call.ret[i].freq_bonus =
                       (IF CounterGet(pp.word_freq, call.ret[i].text) > 100 THEN 5
                        ELSE IF CounterGet(pp.word_freq, call.ret[i].text) > 10 THEN 3
                        ELSE 0)
                /\ RLe(call.ret[i].score, R(100))

(***************************************************************************)
(* SpecThreshold: correct_word on processors configured with different     *)
(* confusion_threshold and context_weight arguments                        *)
(***************************************************************************)
\* values of the confusion_threshold argument (--threshold)
ConfusionThresholds == {0, 40, 50, 55, 60, 65, 100}

ThresholdProcessors ==
    {[EnhancedPostProcessor({kitab, dars}, EmptyMap, (dars :> (dars :> 1)), 1)
         EXCEPT !.confusion_threshold = R(t), !.context_weight = w] :
        t \in ConfusionThresholds, w \in {Rat(2, 10), Rat(5, 10)}}

InitThreshold ==
    /\ FUZZY_LIB = "None"
    /\ pp \in ThresholdProcessors
    /\ cap = ContextAwarePostProcessor({}, EmptyMap, 0, EmptyMap, 0)
    /\ cp = FreshCP
    /\ disk = NoFile
    /\ call = NoCall

NextThreshold ==
    \/ CorrectWord
    \/ Return

SpecThreshold == InitThreshold /\ [][NextThreshold]_vars

(***************************************************************************)
(* C16: the acceptance threshold of correct_word is confusion_threshold,   *)
(* unless the average confidence of the word is below                      *)
(* confidence_threshold: then, for every confusion_threshold in [0, 100],  *)
(* it is at most confusion_threshold and at least the floor 50.            *)
(***************************************************************************)
LowConfidence(self, char_confidences) ==
    /\ char_confidences # <<>>
    /\ RLt(RDiv(SumRat(char_confidences), R(Len(char_confidences))), self.confidence_threshold)

\* the call went past the early returns of lines 456-467
AppliesThreshold ==
    /\ IsCorrectWord
    /\ Len(call.args.word) >= pp.min_word_length
    /\ call.args.word \notin pp.dictionary
    /\ \E candidates \in find_candidates(pp, FUZZY_LIB, call.args.word, call.args.char_confidences,
                                        DefaultMaxCandidates) :
           candidates # <<>> /\ candidates[1].score # R(0)

C16_RelaxedDownward ==
    AppliesThreshold =>
        LET threshold == AcceptanceThreshold(pp, call.args.char_confidences)
        IN  IF LowConfidence(pp, call.args.char_confidences)
            THEN RLe(threshold, pp.confusion_threshold) /\ RLe(R(50), threshold)
            ELSE threshold = pp.confusion_threshold

(***************************************************************************)
(* SpecVariants: calls of generate_confusion_variants                      *)
(***************************************************************************)
\* ba has five confusable characters either way, lam is only a key of the
\* table, alef only a value, dot is not in it
VariantAlphabet == {"ba", "lam", "alef", "dot"}

\* a word with 21 variants, one more than the default max_variants
HeavyWord == <<"ba", "ba", "ba", "ba">>

VariantWords == Words(VariantAlphabet, MaxVarLen) \cup {HeavyWord}

InitIdle ==
    /\ FUZZY_LIB = "rapidfuzz"
    /\ pp = EnhancedPostProcessor({}, EmptyMap, EmptyMap, 0)
    /\ cap = ContextAwarePostProcessor({}, EmptyMap, 0, EmptyMap, 0)
    /\ cp = FreshCP
    /\ disk = NoFile
    /\ call = NoCall

GenerateConfusionVariants ==
    /\ call.op = "none"
    /\ \E word \in VariantWords : \E max_variants \in {1, 3, DefaultMaxVariants} :
       \E r \in generate_confusion_variants(word, max_variants) :
           /\ call' = [op |-> "generate_confusion_variants",
                       args |-> [word |-> word, max_variants |-> max_variants],
                       ret |-> r]
           /\ UNCHANGED <<FUZZY_LIB, pp, cap, cp, disk>>

NextVariants == GenerateConfusionVariants \/ Return

SpecVariants == InitIdle /\ [][NextVariants]_vars

\* C5: generate_confusion_variants(word, max_variants) contains the
\* unmodified word and has at most max_variants strings.
C5_ContainsWordAndCapped ==
    call.op = "generate_confusion_variants" =>
        /\ call.args.word \in call.ret
        /\ Cardinality(call.ret) <= call.args.max_variants

\* C6: with the default max_variants, for every position i of the word and
\* every character c2 the table lists for word[i], the result contains the
\* word with word[i] replaced by c2.
C6_ContainsEveryConfusion ==
    call.op = "generate_confusion_variants" /\ call.args.max_variants = DefaultMaxVariants =>
        \A i \in DOMAIN call.args.word :
            \A c2 \in Range(ConfusionGet(call.args.word[i])) :
                Replace(call.args.word, i, c2) \in call.ret

(***************************************************************************)
(* SpecSimilarity: calls of confusion_similarity                           *)
(***************************************************************************)
SimAlphabet == {"ba", "lam", "alef"}

\* words long enough to differ in length by more than 3 from the short ones
LongWords == {[i \in 1..(MaxSimLen + 2) |-> c] : c \in SimAlphabet}

SimWords == Words(SimAlphabet, MaxSimLen) \cup LongWords

ConfusionSimilarity ==
    /\ call.op = "none"
    /\ \E word1 \in SimWords : \E word2 \in SimWords :
           /\ call' = [op |-> "confusion_similarity",
                       args |-> [word1 |-> word1, word2 |-> word2],
                       ret |-> confusion_similarity(word1, word2)]
           /\ UNCHANGED <<FUZZY_LIB, pp, cap, cp, disk>>

NextSimilarity == ConfusionSimilarity \/ Return

SpecSimilarity == InitIdle /\ [][NextSimilarity]_vars

\* C7: confusion_similarity(a, a) = 100, and confusion_similarity(a, b) is
\* the value of confusion_similarity(b, a).
C7_ReflexiveSymmetric ==
    call.op = "confusion_similarity" =>
        /\ call.args.word1 = call.args.word2 => call.ret = R(100)
        /\ call.ret = confusion_similarity(call.args.word2, call.args.word1)

\* alef is confusable with lam only through lam's entry of the table
C7_Witness ==
    /\ call.op = "confusion_similarity"
    /\ call.args.word1 = <<"alef", "ba">>
    /\ call.args.word2 = <<"lam", "ba">>
    /\ call.ret = R(85)

(***************************************************************************)
(* SpecHypothesis: calls of the MultiHypothesisProcessor                   *)
(***************************************************************************)
HypothesisTexts == {kitab \o <<"sp">> \o dars, kitab_ar \o <<"sp">> \o dars, darb, <<>>}

DecoderScores == {R(0), R(60), R(100)}

Hypotheses == Words(HypothesisTexts \X DecoderScores, MaxHypotheses)

InitHypothesis ==
    /\ FUZZY_LIB = "rapidfuzz"
    /\ pp \in LoadedProcessors
    /\ cap = ContextAwarePostProcessor({}, EmptyMap, 0, EmptyMap, 0)
    /\ cp = FreshCP
    /\ disk = NoFile
    /\ call = NoCall

ScoreHypothesis ==
    /\ call.op = "none"
    /\ \E text \in HypothesisTexts : \E base_score \in DecoderScores :
           /\ call' = [op |-> "score_hypothesis",
                       args |-> [text |-> text, base_score |-> base_score],
                       ret |-> score_hypothesis(pp, text, base_score)]
           /\ UNCHANGED <<FUZZY_LIB, pp, cap, cp, disk>>

SelectBestHypothesis ==
    /\ call.op = "none"
    /\ \E hypotheses \in Hypotheses :
           /\ call' = [op |-> "select_best_hypothesis",
                       args |-> [hypotheses |-> hypotheses],
                       ret |-> select_best_hypothesis(pp, hypotheses)]
           /\ UNCHANGED <<FUZZY_LIB, pp, cap, cp, disk>>

NextHypothesis == ScoreHypothesis \/ SelectBestHypothesis \/ Return

SpecHypothesis == InitHypothesis /\ [][NextHypothesis]_vars

\* fraction of the words of text that are in the dictionary
DictionaryCoverage(text) ==
    Rat(Cardinality({i \in DOMAIN split(text) : split(text)[i] \in pp.dictionary}),
        Max2(1, Len(split(text))))

\* mean context score over the consecutive words of text (50 below two words)
MeanContextScore(text) ==
    LET words == split(text)
    IN  IF Len(words) < 2 THEN R(50)
        ELSE RDiv(SumRat([i \in 1..(Len(words) - 1) |->
                             get_context_score(pp, words[i], words[i + 1], WordAt(words, i + 2))]),
                  R(Len(words) - 1))

\* 0.3*decoder_score + 0.4*(100*coverage) + 0.3*mean_context_score
CombinedScore(h) ==
    RAdd(RAdd(RMul(Rat(3, 10), h[2]),
              RMul(Rat(4, 10), RMul(R(100), DictionaryCoverage(h[1])))),
         RMul(Rat(3, 10), MeanContextScore(h[1])))

\* C10: over two or more hypotheses select_best_hypothesis returns the text
\* of an input hypothesis whose combined score is maximal among the inputs.
C10_SelectsMaximum ==
    call.op = "select_best_hypothesis" /\ Len(call.args.hypotheses) >= 2 =>
        \E i \in DOMAIN call.args.hypotheses :
            /\ call.args.hypotheses[i][1] = call.ret.text
            /\ call.ret.info.best_score = CombinedScore(call.args.hypotheses[i])
            /\ \A j \in DOMAIN call.args.hypotheses :
                   RLe(CombinedScore(call.args.hypotheses[j]), CombinedScore(call.args.hypotheses[i]))

\* the reading with full coverage and context wins against a decoder score
\* 40 points higher: 0.3*60 + 40 + 30 = 88 against 0.3*100 + 20 + 15 = 65
C10_Witness ==
    /\ call.op = "select_best_hypothesis"
    /\ pp = KitabDarsProcessor
    /\ call.args.hypotheses = <<<<kitab_ar \o <<"sp">> \o dars, R(100)>>,
                                <<kitab \o <<"sp">> \o dars, R(60)>>>>
    /\ call.ret.text = kitab \o <<"sp">> \o dars
    /\ call.ret.info.best_score = R(88)
    /\ call.ret.info.runner_up_score = R(65)

(***************************************************************************)
(* SpecCorpus: runs of build_corpus_model.py over one snapshot file        *)
(***************************************************************************)
dar == <<"dal", "re">>

bad == <<"ba", "dal">>

\* tokens of corpus files: a word, and the word behind punctuation
CorpusTokens == {dar, <<"dot">> \o dar}

\* the texts of corpus files: up to MaxDocTokens tokens, and one text
\* with a second word and a number
Documents ==
    {join(tokens) : tokens \in Words(CorpusTokens, MaxDocTokens)}
    \cup {join(<<dar, <<"p4", "p5">>, bad, dar>>)}

\* processor = CorpusProcessor()
NewCorpusProcessor ==
    /\ cp # FreshCP
    /\ cp' = FreshCP
    /\ call' = [op |-> "CorpusProcessor", args |-> <<>>, ret |-> <<>>]
    /\ UNCHANGED <<FUZZY_LIB, pp, cap, disk>>

IndexText ==
    \E text \in Documents :
        /\ cp.total_words + Len(split(text)) <= MaxTotalWords
        /\ cp' = CorpusProcessText(cp, text)
        /\ call' = [op |-> "corpus.process_text", args |-> [self |-> cp, text |-> text], ret |-> <<>>]
        /\ UNCHANGED <<FUZZY_LIB, pp, cap, disk>>

SaveModel ==
    /\ disk' = File(save_model(cp))
    /\ call' = [op |-> "save_model", args |-> <<>>, ret |-> <<>>]
    /\ UNCHANGED <<FUZZY_LIB, pp, cap, cp>>

MergeWithExisting ==
    /\ disk.exists => cp.total_words + disk.data.total_words <= MaxTotalWords
    /\ cp' = merge_with_existing(cp, disk)
    /\ call' = [op |-> "merge_with_existing", args |-> [self |-> cp, file |-> disk], ret |-> <<>>]
    /\ UNCHANGED <<FUZZY_LIB, pp, cap, disk>>

NextCorpus == NewCorpusProcessor \/ IndexText \/ SaveModel \/ MergeWithExisting

SpecCorpus == InitIdle /\ [][NextCorpus]_vars

\* table[k1][k2] of a defaultdict(Counter), 0 when absent
Count2(table, k1, k2) == IF k1 \in DOMAIN table THEN CounterGet(table[k1], k2) ELSE 0

Keys2(table) == UNION {{<<k1, k2>> : k2 \in DOMAIN table[k1]} : k1 \in DOMAIN table}

\* the counts of cp are the elementwise sums of those of A and B
CountsAreSums(A, B) ==
    /\ \A w \in DOMAIN cp.word_freq \cup DOMAIN A.word_freq \cup DOMAIN B.word_freq :
           CounterGet(cp.word_freq, w) = CounterGet(A.word_freq, w) + CounterGet(B.word_freq, w)
    /\ \A k \in Keys2(cp.bigrams) \cup Keys2(A.bigrams) \cup Keys2(B.bigrams) :
           Count2(cp.bigrams, k[1], k[2]) = Count2(A.bigrams, k[1], k[2]) + Count2(B.bigrams, k[1], k[2])
    /\ \A k \in Keys2(cp.trigrams) \cup Keys2(A.trigrams) \cup Keys2(B.trigrams) :
           Count2(cp.trigrams, k[1], k[2]) = Count2(A.trigrams, k[1], k[2]) + Count2(B.trigrams, k[1], k[2])
    /\ cp.total_words = A.total_words + B.total_words
    /\ cp.total_bigrams = A.total_bigrams + B.total_bigrams
    /\ cp.total_trigrams = A.total_trigrams + B.total_trigrams

\* C8: after merge_with_existing(B) on a processor holding A every word,
\* bigram and trigram count and every total is the sum of A's and B's;
\* merging an empty or absent model leaves A unchanged.
C8_MergeIsElementwiseSum ==
    call.op = "merge_with_existing" =>
        /\ call.args.file.exists => CountsAreSums(call.args.self, call.args.file.data)
        /\ ~call.args.file.exists => cp = call.args.self
        /\ call.args.file.exists /\ call.args.file.data = save_model(FreshCP) => cp = call.args.self

\* both models hold trigrams, and they share a word
C8_Witness ==
    /\ call.op = "merge_with_existing"
    /\ call.args.file.exists
    /\ call.args.self.total_trigrams > 0
    /\ call.args.file.data.total_trigrams > 0
    /\ bad \in DOMAIN call.args.self.word_freq
    /\ bad \in DOMAIN call.args.file.data.word_freq
    /\ cp.word_freq[bad] = 2
    /\ cp.total_trigrams = 2

\* the tokens of text.split() that remain after the edge characters are
\* stripped: two characters or more and not purely numeric
KeptTokens(text) ==
    LET stripped == [i \in DOMAIN split(text) |-> StripEdges(split(text)[i], NonWord)]
        kept == {i \in DOMAIN stripped : Len(stripped[i]) >= 2 /\ ~isdigit(stripped[i])}
        Nth[k \in 0..Cardinality(kept)] ==
            IF k = 0 THEN 0 ELSE CHOOSE i \in kept : i > Nth[k - 1] /\ \A j \in kept : j > Nth[k - 1] => i <= j
    IN  [k \in 1..Cardinality(kept) |-> stripped[Nth[k]]]

\* the windows of t that start with the words in `first` and end with w
Windows(t, first, w) ==
    Cardinality({i \in 1..(Len(t) - Len(first)) :
                    /\ \A j \in DOMAIN first : t[i + j - 1] = first[j]
                    /\ t[i + Len(first)] = w})

(***************************************************************************)
(* C23: process_text on a document whose tokens normalise to t1..tn adds 1 *)
(* to word_freq for each ti, 1 to bigrams[ti][ti+1] for each adjacent pair *)
(* and 1 to trigrams["ti|ti+1"][ti+2] for each adjacent triple, so the     *)
(* three totals grow by n, max(0, n-1) and max(0, n-2); counts of words    *)
(* the document does not hold are unchanged, so no n-gram spans two        *)
(* documents.                                                              *)
(***************************************************************************)
C23_SlidingWindowCounts ==
    call.op = "corpus.process_text" =>
        LET t == KeptTokens(call.args.text)
            n == Len(t)
            before == call.args.self
            vocabulary == DOMAIN cp.word_freq \cup DOMAIN before.word_freq \cup Range(t)
        IN  /\ \A w \in vocabulary :
                   CounterGet(cp.word_freq, w) = CounterGet(before.word_freq, w) + Windows(t, <<>>, w)
            /\ \A w1 \in vocabulary : \A w2 \in vocabulary :
                   Count2(cp.bigrams, w1, w2) = Count2(before.bigrams, w1, w2) + Windows(t, <<w1>>, w2)
            /\ \A w1 \in vocabulary : \A w2 \in vocabulary : \A w3 \in vocabulary :
                   Count2(cp.trigrams, TrigramKey(w1, w2), w3) =
                       Count2(before.trigrams, TrigramKey(w1, w2), w3) + Windows(t, <<w1, w2>>, w3)
            /\ Keys2(cp.bigrams) \subseteq vocabulary \X vocabulary
            /\ DOMAIN cp.trigrams \subseteq {TrigramKey(w1, w2) : w1 \in vocabulary, w2 \in vocabulary}
            /\ cp.total_words = before.total_words + n
            /\ cp.total_bigrams = before.total_bigrams + Max2(0, n - 1)
            /\ cp.total_trigrams = before.total_trigrams + Max2(0, n - 2)
            /\ cp.files_processed = before.files_processed

\* a document with a number and a second word, indexed after a document
\* of one word: the pair (dar, dar) across the two documents is not counted
C23_Witness ==
    /\ call.op = "corpus.process_text"
    /\ call.args.self.word_freq = (dar :> 1)
    /\ call.args.text = join(<<dar, <<"p4", "p5">>, bad, dar>>)
    /\ cp.total_words = 4
    /\ cp.bigrams = (dar :> (bad :> 1)) @@ (bad :> (dar :> 1))
    /\ cp.total_trigrams = 1

(***************************************************************************)
(* SpecParallel: the same files indexed one after another by a single      *)
(* CorpusProcessor (cp), and each by a worker of its own that saves its    *)
(* model (disk holds the workers' snapshots); a final processor merges the *)
(* snapshots in any order.                                                 *)
(***************************************************************************)
InitParallel ==
    /\ FUZZY_LIB = "None"
    /\ pp = EnhancedPostProcessor({}, EmptyMap, EmptyMap, 0)
    /\ cap = ContextAwarePostProcessor({}, EmptyMap, 0, EmptyMap, 0)
    /\ cp = FreshCP
    /\ disk = <<>>
    /\ call = [op |-> "parallel", merged |-> FreshCP, pending |-> {}, order |-> <<>>]

\* a file is indexed by the single processor, and by a fresh worker that
\* saves its model
IndexFile ==
    /\ Len(disk) < MaxFiles
    /\ \E text \in Documents :
           /\ cp' = CorpusProcessText(cp, text)
           /\ disk' = Append(disk, File(save_model(CorpusProcessText(FreshCP, text))))
           /\ call' = [call EXCEPT !.pending = @ \cup {Len(disk) + 1}]
    /\ UNCHANGED <<FUZZY_LIB, pp, cap>>

\* the final processor merges one of the snapshots not merged yet
MergeSnapshot ==
    /\ \E i \in call.pending :
           call' = [call EXCEPT !.merged = merge_with_existing(@, disk[i]),
                                !.pending = @ \ {i},
                                !.order = Append(@, i)]
    /\ UNCHANGED <<FUZZY_LIB, pp, cap, cp, disk>>

NextParallel ==
    \/ IndexFile
    \/ MergeSnapshot

SpecParallel == InitParallel /\ [][NextParallel]_vars

(***************************************************************************)
(* C20: indexing each file in a fresh CorpusProcessor, saving each model   *)
(* and merging them all, in any order, gives the same word_freq, bigrams,  *)
(* trigrams, total_words, total_bigrams and total_trigrams as indexing the *)
(* files one after another in a single CorpusProcessor.                    *)
(***************************************************************************)
C20_ParallelEqualsSequential ==
    call.pending = {} =>
        /\ call.merged.word_freq = cp.word_freq
        /\ call.merged.bigrams = cp.bigrams
        /\ call.merged.trigrams = cp.trigrams
        /\ call.merged.total_words = cp.total_words
        /\ call.merged.total_bigrams = cp.total_bigrams
        /\ call.merged.total_trigrams = cp.total_trigrams

\* two files with trigrams and a shared word, merged in the reverse of the
\* order in which they were indexed
C20_Witness ==
    /\ call.pending = {}
    /\ call.order = <<2, 1>>
    /\ disk[1].data.total_trigrams > 0
    /\ disk[2].data.total_trigrams > 0
    /\ disk[1].data # disk[2].data
    /\ cp.word_freq[dar] >= 4

(***************************************************************************)
(* SpecDirectory: a CorpusProcessor indexing directories of text files     *)
(* written in several encodings                                            *)
(***************************************************************************)
\* str.encode('utf-8') for the characters of the corpus texts
RECURSIVE utf8_encode(_)
utf8_encode(text) ==
    IF text = <<>> THEN <<>>
    ELSE (CASE text[1] = "dal" -> <<"xD8", "xAF">>
            [] text[1] = "re" -> <<"xD8", "xB1">>
            [] text[1] = "sp" -> <<"x20">>
            [] text[1] = "dot" -> <<"x2E">>) \o utf8_encode(Tail(text))

\* str.encode('cp1256') for the characters of the corpus texts
RECURSIVE cp1256_encode(_)
cp1256_encode(text) ==
    IF text = <<>> THEN <<>>
    ELSE (CASE text[1] = "dal" -> <<"xCF">>
            [] text[1] = "re" -> <<"xD1">>
            [] text[1] = "sp" -> <<"x20">>
            [] text[1] = "dot" -> <<"x2E">>) \o cp1256_encode(Tail(text))

\* a text with a trigram, and a text with punctuation and a short token
ThreeWords == join(<<dar, dar, dar>>)

DottedWord == <<"dot">> \o dar \o <<"sp", "re">>

TextFile(bytes) == [readable |-> TRUE, bytes |-> bytes]

\* a path matching the pattern that cannot be read as a file
UnreadablePath == [readable |-> FALSE, bytes |-> <<>>]

\* a UTF-8 file cut inside its last character
TruncatedFile == TextFile(SubSeq(utf8_encode(ThreeWords), 1, Len(utf8_encode(ThreeWords)) - 1))

CorpusFiles ==
    {TextFile(utf8_encode(ThreeWords)),
     TextFile(<<"EFBBBF">> \o utf8_encode(ThreeWords)),
     TextFile(cp1256_encode(ThreeWords)),
     TextFile(cp1256_encode(DottedWord)),
     TruncatedFile,
     UnreadablePath}

Directories == {NoDirectory} \cup {Directory(files) : files \in Words(CorpusFiles, MaxFiles)}

\* processor.process_directory(dir_path)
ProcessDirectory ==
    /\ call.op = "none"
    /\ \E dir \in Directories :
           /\ cp.files_processed + Len(dir.files) <= MaxFiles
           /\ cp' = process_directory(cp, dir)
           /\ call' = [op |-> "process_directory", args |-> [self |-> cp, dir |-> dir], ret |-> <<>>]
    /\ UNCHANGED <<FUZZY_LIB, pp, cap, disk>>

NextDirectory == ProcessDirectory \/ Return

SpecDirectory == InitIdle /\ [][NextDirectory]_vars

\* the file decodes under one of the four encodings
Decodes(file) == \E i \in DOMAIN Encodings : ~IsRaised(read_text(file, Encodings[i]))

\* the text of the file under the first encoding that decodes it
FirstDecoding(file) ==
    LET i == CHOOSE i \in DOMAIN Encodings :
                 /\ ~IsRaised(read_text(file, Encodings[i]))
                 /\ \A j \in 1..(i - 1) : IsRaised(read_text(file, Encodings[j]))
    IN  read_text(file, Encodings[i]).text

\* the processor that has indexed, once each and in order, the files that
\* decode
RECURSIVE IndexedOnce(_, _)
IndexedOnce(self, files) ==
    IF files = <<>> THEN self
    ELSE IF Decodes(Head(files))
         THEN IndexedOnce([CorpusProcessText(self, FirstDecoding(Head(files)))
                              EXCEPT !.files_processed = @ + 1], Tail(files))
         ELSE IndexedOnce(self, Tail(files))

OCRPostProcessor(min_word_length) ==
    [min_word_length |-> min_word_length, fuzzy_threshold |-> R(80), max_candidates |-> 5,
     dictionary |-> {}, word_freq |-> EmptyMap]

IsOCRPostProcessor(self) == "max_candidates" \in DOMAIN self

\* str.strip()
strip(s) == StripEdges(s, Whitespace)

\* for line in f: word = line.strip(); add it when long enough
RECURSIVE LoadLines(_, _, _)
LoadLines(self, lines, i) ==
    IF i > Len(lines) THEN self
    ELSE LET word == strip(lines[i])
         IN  LoadLines(IF word # <<>> /\ Len(word) >= self.min_word_length
                       THEN [self EXCEPT !.dictionary = @ \cup {word}] ELSE self, lines, i + 1)

\* EnhancedPostProcessor.load_dictionary
load_dictionary(self, file) ==
    IF ~file.exists THEN self ELSE LoadLines(self, file.data, 1)

\* for line in f: word = line.strip(); add it when not empty
RECURSIVE OcrLoadLines(_, _, _)
OcrLoadLines(self, lines, i) ==
    IF i > Len(lines) THEN self
    ELSE LET word == strip(lines[i])
         IN  OcrLoadLines(IF word # <<>>
                          THEN [self EXCEPT !.dictionary = @ \cup {word}] ELSE self, lines, i + 1)

\* OCRPostProcessor.load_dictionary
ocr_load_dictionary(self, file) ==
    IF ~file.exists THEN self ELSE OcrLoadLines(self, file.data, 1)

\* OCRPostProcessor.add_words
RECURSIVE add_words(_, _)
add_words(self, words) ==
    IF words = <<>> THEN self
    ELSE LET word == strip(Head(words))
         IN  add_words(IF word # <<>>
                       THEN [self EXCEPT !.dictionary = @ \cup {word},
                                         !.word_freq = Inc(@, word, 1)]
                       ELSE self, Tail(words))

\* re.findall(r'[؀-ۿ]+', text): the maximal runs of characters
\* not in `outside`
RECURSIVE Runs(_, _, _, _)
Runs(text, outside, i, cur) ==
    IF i > Len(text) THEN (IF cur = <<>> THEN <<>> ELSE <<cur>>)
    ELSE IF text[i] \in outside
         THEN (IF cur = <<>> THEN <<>> ELSE <<cur>>) \o Runs(text, outside, i + 1, <<>>)
         ELSE Runs(text, outside, i + 1, Append(cur, text[i]))

\* the loop over the words of one text file that adds the long enough ones
RECURSIVE AddLongWords(_, _)
AddLongWords(self, words) ==
    IF words = <<>> THEN self
    ELSE AddLongWords(IF Head(words) # <<>> /\ Len(Head(words)) >= self.min_word_length
                      THEN [self EXCEPT !.dictionary = @ \cup {Head(words)},
                                        !.word_freq = Inc(@, Head(words), 1)]
                      ELSE self, Tail(words))

\* EnhancedPostProcessor.build_dictionary_from_ganjoor over a directory of
\* one text file
build_dictionary_from_ganjoor(self, text) == AddLongWords(self, Runs(text, NonArabic, 1, <<>>))

\* OCRPostProcessor.build_from_training_data over a directory of one
\* ground-truth file
build_from_training_data(self, text) ==
    AddLongWords(self, [i \in DOMAIN split(text) |-> StripEdges(split(text)[i], NonWord)])

\* lines of a word-list file and words of texts: one, two and three letters
DictionaryLines == {<<"dal">>, dar, dars, <<"sp">>, dar \o <<"sp">>}

DictionaryFiles == {NoFile} \cup {File(lines) : lines \in Words(DictionaryLines, 2)}

DictionaryTexts == {<<"dot", "dal", "sp">> \o dar \o <<"dot">>, dars \o <<"dot">> \o dar, <<"dal">>}

InitDictionary ==
    /\ FUZZY_LIB = "None"
    /\ pp \in {[EnhancedPostProcessor({}, EmptyMap, EmptyMap, 0) EXCEPT !.min_word_length = m] :
                   m \in 1..3}
              \cup {OCRPostProcessor(m) : m \in 1..3}
    /\ cap = ContextAwarePostProcessor({}, EmptyMap, 0, EmptyMap, 0)
    /\ cp = FreshCP
    /\ disk = NoFile
    /\ call = NoCall

LoadDictionary ==
    /\ \E file \in DictionaryFiles :
           /\ pp' = IF IsOCRPostProcessor(pp) THEN ocr_load_dictionary(pp, file)
                    ELSE load_dictionary(pp, file)
           /\ call' = [op |-> "load_dictionary", args |-> [file |-> file], ret |-> <<>>]
    /\ UNCHANGED <<FUZZY_LIB, cap, cp, disk>>

AddWords ==
    /\ IsOCRPostProcessor(pp)
    /\ \E words \in Words(DictionaryLines, 2) :
           /\ SumValues(pp.word_freq) + Len(words) <= MaxTotalWords
           /\ pp' = add_words(pp, words)
           /\ call' = [op |-> "add_words", args |-> [words |-> words], ret |-> <<>>]
    /\ UNCHANGED <<FUZZY_LIB, cap, cp, disk>>

BuildDictionaryFromGanjoor ==
    /\ ~IsOCRPostProcessor(pp)
    /\ \E text \in DictionaryTexts :
           /\ SumValues(pp.word_freq) + Len(split(text)) <= MaxTotalWords
           /\ pp' = build_dictionary_from_ganjoor(pp, text)
           /\ call' = [op |-> "build_dictionary_from_ganjoor", args |-> [text |-> text], ret |-> <<>>]
    /\ UNCHANGED <<FUZZY_LIB, cap, cp, disk>>

BuildFromTrainingData ==
    /\ IsOCRPostProcessor(pp)
    /\ \E text \in DictionaryTexts :
           /\ SumValues(pp.word_freq) + Len(split(text)) <= MaxTotalWords
           /\ pp' = build_from_training_data(pp, text)
           /\ call' = [op |-> "build_from_training_data", args |-> [text |-> text], ret |-> <<>>]
    /\ UNCHANGED <<FUZZY_LIB, cap, cp, disk>>

NextDictionary ==
    \/ LoadDictionary
    \/ AddWords
    \/ BuildDictionaryFromGanjoor
    \/ BuildFromTrainingData

SpecDictionary == InitDictionary /\ [][NextDictionary]_vars

(***************************************************************************)
(* C22: after any sequence of load_dictionary,                             *)
(* build_dictionary_from_ganjoor, add_words and build_from_training_data   *)
(* every word stored in the dictionary has length >= min_word_length.      *)
(***************************************************************************)
C22_StoredWordsLongEnough ==
    \A word \in pp.dictionary : Len(word) >= pp.min_word_length

(***************************************************************************)
(* SpecLog: process_text of both correctors on texts in which several      *)
(* words are corrected                                                     *)
(***************************************************************************)
LogWords == {kitab, kitab_ar, darb}

LogTexts == {join(words) : words \in Words(LogWords, MaxLogWords)}

\* ContextAwarePostProcessor(dictionary_path) and
\* ContextAwarePostProcessor(dictionary_path, fuzzy_threshold=60)
LogContextProcessors ==
    {ContextAwarePostProcessor({kitab, dars}, EmptyMap, 0, EmptyMap, 0),
     [ContextAwarePostProcessor({kitab, dars}, EmptyMap, 0, EmptyMap, 0)
         EXCEPT !.fuzzy_threshold = R(60)]}

InitLog ==
    /\ FUZZY_LIB \in {"rapidfuzz", "None"}
    /\ pp \in LoadedProcessors
    /\ cap \in LogContextProcessors
    /\ cp = FreshCP
    /\ disk = NoFile
    /\ call = NoCall

LogProcessText ==
    /\ call.op = "none"
    /\ \E text \in LogTexts : \E r \in process_text(pp, FUZZY_LIB, text) :
           /\ call' = [op |-> "process_text", args |-> [text |-> text], ret |-> r]
           /\ UNCHANGED <<FUZZY_LIB, pp, cap, cp, disk>>

LogContextProcessText ==
    /\ call.op = "none"
    /\ \E text \in LogTexts : \E r \in CapProcessText(cap, FUZZY_LIB, text) :
           /\ call' = [op |-> "context.process_text", args |-> [text |-> text], ret |-> r]
           /\ UNCHANGED <<FUZZY_LIB, pp, cap, cp, disk>>

NextLog == LogProcessText \/ LogContextProcessText \/ Return

SpecLog == InitLog /\ [][NextLog]_vars

\* the elements of a set of positions in ascending order
Ascending(S) ==
    LET Nth[k \in 0..Cardinality(S)] ==
            IF k = 0 THEN 0
            ELSE CHOOSE i \in S : i > Nth[k - 1] /\ \A j \in S : j > Nth[k - 1] => i <= j
    IN  [k \in 1..Cardinality(S) |-> Nth[k]]

(***************************************************************************)
(* C24: every entry of the log returned by                                 *)
(* ContextAwarePostProcessor.process_text is a record (not None) with the  *)
(* fields original, candidate, fuzzy and context; original is the input    *)
(* word at the corrected position and candidate the word written to the    *)
(* output there; the entries are in left-to-right word order.              *)
(***************************************************************************)
C24_LogEntriesWellFormed ==
    call.op = "context.process_text" =>
        LET words == split(call.args.text)
            out == split(call.ret.text)
            log == call.ret.corrections
        IN  /\ Len(out) = Len(words)
            /\ \A j \in DOMAIN log :
                   /\ log[j] # NoneInfo
                   /\ {"original", "candidate", "fuzzy", "context"} \subseteq DOMAIN log[j]
            /\ \E positions \in SUBSET DOMAIN words :
                   /\ Cardinality(positions) = Len(log)
                   /\ \A j \in DOMAIN log :
                          /\ log[j].original = words[Ascending(positions)[j]]
                          /\ log[j].candidate = out[Ascending(positions)[j]]

\* two different words corrected around a dictionary word
C24_Witness ==
    /\ call.op = "context.process_text"
    /\ call.args.text = join(<<kitab_ar, kitab, darb>>)
    /\ call.ret.text = join(<<kitab, kitab, dars>>)
    /\ Len(call.ret.corrections) = 2
    /\ call.ret.corrections[1].original = kitab_ar
    /\ call.ret.corrections[1].candidate = kitab
    /\ call.ret.corrections[2].original = darb
    /\ call.ret.corrections[2].candidate = dars

\* the positions at which the output word differs from the input word
ChangedPositions(words, out) == {i \in DOMAIN words : out[i] # words[i]}

(***************************************************************************)
(* C28: process_text returns a text with as many words as its input, and   *)
(* the log has exactly one entry, in left-to-right order, for each         *)
(* position at which the output word differs from the input word: no word  *)
(* is changed without an entry and no entry is for an unchanged word.      *)
(***************************************************************************)
C28_LogCompleteAndOrdered ==
    call.op \in {"process_text", "context.process_text"} =>
        LET words == split(call.args.text)
            out == split(call.ret.text)
            log == call.ret.corrections
        IN  /\ Len(out) = Len(words)
            /\ Len(log) = Cardinality(ChangedPositions(words, out))
            /\ \A j \in DOMAIN log :
                   /\ log[j].original = words[Ascending(ChangedPositions(words, out))[j]]
                   /\ call.op = "process_text" =>
                          log[j].corrected = out[Ascending(ChangedPositions(words, out))[j]]
                   /\ call.op = "context.process_text" =>
                          log[j].candidate = out[Ascending(ChangedPositions(words, out))[j]]

(***************************************************************************)
(* SpecCommands: runs of the two command-line tools.  disk is the model    *)
(* snapshot ocr_context_model.pkl that the build command merges and        *)
(* writes; a run ends with the exit code of the process: 0 when main       *)
(* returns or calls sys.exit(0), 1 for sys.exit(1) or an exception that    *)
(* leaves main.                                                            *)
(***************************************************************************)
\* build_corpus_model.main: the exit code and the snapshot file after it
build_main(args, file) ==
    IF ~args.corpus_dir.given THEN [exit |-> 0, file |-> file]
    ELSE LET processor == IF args.merge THEN merge_with_existing(FreshCP, file) ELSE FreshCP
         IN  [exit |-> 0,
              file |-> File(save_model(process_directory(processor, args.corpus_dir.dir)))]

NoArgument == [given |-> FALSE]

\* post_process_enhanced.main: the possible exit codes and corrected texts
enhanced_main(lib, args) ==
    IF args.build_dict
    THEN {[exit |-> IF args.ganjoor_exists THEN 0 ELSE 1, corrected |-> None]}
    ELSE LET processor == load_dictionary(EnhancedPostProcessor({}, EmptyMap, EmptyMap, 0), args.dict)
         IN  IF args.input.given
             THEN IF ~args.input.file.exists THEN {[exit |-> 1, corrected |-> None]}
                  ELSE {[exit |-> 0, corrected |-> r.text] :
                           r \in process_text(processor, lib, args.input.file.data)}
             ELSE IF args.text.given /\ args.text.text # <<>>
             THEN {[exit |-> 0, corrected |-> r.text] : r \in process_text(processor, lib, args.text.text)}
             ELSE {[exit |-> 0, corrected |-> None]}

CommandTexts == {join(<<kitab_ar, dars>>), kitab}

BuildArguments ==
    {[corpus_dir |-> NoArgument, merge |-> merge] : merge \in BOOLEAN}
    \cup {[corpus_dir |-> [given |-> TRUE, dir |-> dir], merge |-> merge] :
             dir \in Directories, merge \in BOOLEAN}

EnhancedArguments ==
    [build_dict : BOOLEAN, ganjoor_exists : BOOLEAN,
     dict : {NoFile, File(<<kitab, dars>>)},
     input : {NoArgument} \cup {[given |-> TRUE, file |-> f] : f \in {NoFile} \cup {File(t) : t \in CommandTexts}},
     text : {NoArgument} \cup {[given |-> TRUE, text |-> t] : t \in CommandTexts}]

\* python build_corpus_model.py [corpus_dir] [--merge]
BuildMain ==
    /\ call.op = "none"
    /\ \E args \in BuildArguments :
           /\ args.corpus_dir.given /\ args.merge /\ disk.exists =>
                  disk.data.total_words + 3 * Len(args.corpus_dir.dir.files) <= MaxTotalWords
           /\ disk' = build_main(args, disk).file
           /\ call' = [op |-> "build_corpus_model.main", args |-> [args |-> args, file |-> disk],
                       ret |-> build_main(args, disk).exit]
    /\ UNCHANGED <<FUZZY_LIB, pp, cap, cp>>

\* python post_process_enhanced.py [--build-dict] [-d dict] [-i input] [-t text]
EnhancedMain ==
    /\ call.op = "none"
    /\ \E args \in EnhancedArguments : \E r \in enhanced_main(FUZZY_LIB, args) :
           call' = [op |-> "post_process_enhanced.main", args |-> [args |-> args, file |-> disk],
                    ret |-> r.exit]
    /\ UNCHANGED <<FUZZY_LIB, pp, cap, cp, disk>>

NextCommands == BuildMain \/ EnhancedMain \/ Return

SpecCommands == InitIdle /\ [][NextCommands]_vars

\* the run lacks a resource it requires: the corpus directory of the build
\* command, the dictionary file or the input file of the correction command
\* (the Ganjoor directory for --build-dict)
ResourceMissing ==
    \/ /\ call.op = "build_corpus_model.main"
       /\ call.args.args.corpus_dir.given
       /\ ~call.args.args.corpus_dir.dir.exists
    \/ /\ call.op = "post_process_enhanced.main"
       /\ \/ call.args.args.build_dict /\ ~call.args.args.ganjoor_exists
          \/ ~call.args.args.build_dict /\ ~call.args.args.dict.exists
          \/ /\ ~call.args.args.build_dict
             /\ call.args.args.input.given
             /\ ~call.args.args.input.file.exists

(***************************************************************************)
(* C25: the command-line tools end with exit code 0 on success and exit    *)
(* code 1 whenever a required resource is missing: the correction command  *)
(* when its dictionary file is absent, the build command when its corpus   *)
(* directory is absent, and then no snapshot is written over an existing   *)
(* one.                                                                    *)
(***************************************************************************)
C25_ExitCodes ==
    call.op \in {"build_corpus_model.main", "post_process_enhanced.main"} =>
        /\ call.ret = (IF ResourceMissing THEN 1 ELSE 0)
        /\ call.op = "build_corpus_model.main" /\ ResourceMissing /\ call.args.file.exists =>
               disk = call.args.file

(***************************************************************************)
(* SpecRanking: find_candidates on words that have, in the dictionary, a   *)
(* neighbour by a confusable substitution and neighbours by other          *)
(* substitutions                                                           *)
(***************************************************************************)
dart == <<"dal", "re", "te">>

\* HeavyWord with one letter replaced: by a confusable letter, by others
heavy_pe == <<"ba", "pe", "ba", "ba">>

heavy_dal == <<"ba", "dal", "ba", "ba">>

heavy_re == <<"ba", "re", "ba", "ba">>

\* without word frequencies, and with frequent neighbours that are not
\* confusable
RankingProcessors ==
    {EnhancedPostProcessor({dart, dars, heavy_pe, heavy_dal, heavy_re}, word_freq, EmptyMap, 0) :
        word_freq \in {EmptyMap, (dars :> 11) @@ (heavy_dal :> 11)}}

InitRanking ==
    /\ FUZZY_LIB \in {"rapidfuzz", "None"}
    /\ pp \in RankingProcessors
    /\ cap = ContextAwarePostProcessor({}, EmptyMap, 0, EmptyMap, 0)
    /\ cp = FreshCP
    /\ disk = NoFile
    /\ call = NoCall

RankCandidates ==
    /\ call.op = "none"
    /\ \E word \in {darb, HeavyWord} : \E char_confidences \in Confidences(word) :
       \E max_candidates \in {1, 2, DefaultMaxCandidates} :
       \E r \in find_candidates(pp, FUZZY_LIB, word, char_confidences, max_candidates) :
           /\ call' = [op |-> "find_candidates",
                       args |-> [word |-> word, char_confidences |-> char_confidences,
                                 max_candidates |-> max_candidates],
                       ret |-> r]
           /\ UNCHANGED <<FUZZY_LIB, pp, cap, cp, disk>>

NextRanking == RankCandidates \/ Return

SpecRanking == InitRanking /\ [][NextRanking]_vars

\* the characters in which candidate differs from word, for a candidate of
\* the same length that differs at exactly one position
OneSubstitution(word, candidate) ==
    /\ Len(candidate) = Len(word)
    /\ Cardinality({j \in DOMAIN word : word[j] # candidate[j]}) = 1

Confusable(word, candidate) ==
    \E j \in DOMAIN word :
        /\ word[j] # candidate[j]
        /\ \/ <<candidate[j]>> \in Range(ConfusionGet(word[j]))
           \/ <<word[j]>> \in Range(ConfusionGet(candidate[j]))

\* the score of a returned candidate before the confidence boost and the
\* frequency bonus, for a score below the cap of 100
BaseScore(c) == RSub(c.score, R(c.confidence_boost + c.freq_bonus))

(***************************************************************************)
(* C26: of two candidates returned by find_candidates for a word w, both   *)
(* of the length of w and differing from w at exactly one position, the    *)
(* one whose differing characters are a confusable pair has a strictly     *)
(* higher base score than the one whose differing characters are not.      *)
(***************************************************************************)
C26_ConfusableOutranks ==
    call.op = "find_candidates" =>
        \A i, j \in DOMAIN call.ret :
            (/\ call.ret[i].source \in {"confusion_variant", "fuzzy"}
             /\ call.ret[j].source \in {"confusion_variant", "fuzzy"}
             /\ RLt(call.ret[i].score, R(100))
             /\ RLt(call.ret[j].score, R(100))
             /\ OneSubstitution(call.args.word, call.ret[i].text)
             /\ OneSubstitution(call.args.word, call.ret[j].text)
             /\ Confusable(call.args.word, call.ret[i].text)
             /\ ~Confusable(call.args.word, call.ret[j].text))
            => RLt(BaseScore(call.ret[j]), BaseScore(call.ret[i]))

\* the confusable neighbour was cut from the variants and came through the
\* fuzzy matches, next to a neighbour that is not confusable
C26_Witness ==
    /\ call.op = "find_candidates"
    /\ call.args.word = HeavyWord
    /\ \E i, j \in DOMAIN call.ret :
           /\ call.ret[i].text = heavy_pe
           /\ call.ret[i].source = "fuzzy"
           /\ call.ret[j].text = heavy_dal
           /\ RLt(BaseScore(call.ret[j]), BaseScore(call.ret[i]))

(***************************************************************************)
(* C29: a correction never invents a word: whenever correct_word or        *)
(* correct_word_with_context returns was_corrected = True, the returned    *)
(* word is a member of the dictionary, differs from the input word, and    *)
(* its base score (base_score of correct_word, the fuzzy score of          *)
(* correct_word_with_context) is at least the configured                   *)
(* confusion_threshold or fuzzy_threshold.                                 *)
(***************************************************************************)
C29_CorrectionFromDictionary ==
    /\ (IsCorrectWord /\ call.ret.was_corrected) =>
           /\ call.ret.word \in pp.dictionary
           /\ call.ret.word # call.args.word
           /\ RLe(pp.confusion_threshold, call.ret.info.base_score)
    /\ (IsCorrectWordWithContext /\ call.ret.was_corrected) =>
           /\ call.ret.word \in cap.dictionary
           /\ call.ret.word # call.args.word
           /\ RLe(cap.fuzzy_threshold, call.ret.info.fuzzy)

\* a word outside the dictionary was replaced by a fuzzy match whose final
\* score, pulled down by the context, is below its base score
C29_Witness ==
    /\ IsCorrectWord
    /\ call.ret.was_corrected
    /\ call.args.word \notin pp.dictionary
    /\ call.ret.info.source = "fuzzy"
    /\ RLt(call.ret.info.final_score, call.ret.info.base_score)

(***************************************************************************)
(* SpecTotals: a CorpusProcessor indexing documents and merging snapshots  *)
(* that were not written by save_model: snapshots whose stored totals are  *)
(* wrong, snapshots without totals, without trigrams or without any key.   *)
(***************************************************************************)
\* the count tables of the snapshots
SnapshotCounts ==
    [word_freq |-> (dar :> 2) @@ (bad :> 1),
     bigrams |-> (dar :> ((bad :> 1) @@ (dar :> 1))),
     trigrams |-> (TrigramKey(dar, bad) :> (dar :> 1))]

\* the dicts pickle.load can return for a snapshot file
Snapshots ==
    {\* as written by save_model
     SnapshotCounts @@ [total_words |-> 3, total_bigrams |-> 2, total_trigrams |-> 1],
     \* stored totals too high, too low
     SnapshotCounts @@ [total_words |-> 7, total_bigrams |-> 0, total_trigrams |-> 5],
     \* no stored totals
     SnapshotCounts,
     \* the format without trigrams, totals of another model
     [word_freq |-> (dar :> 1), bigrams |-> (dar :> (dar :> 1)),
      total_words |-> 2, total_bigrams |-> 0],
     \* word frequencies only
     [word_freq |-> (bad :> 1)],
     \* a dict without any key of the format
     [version |-> 1]}

\* merge_with_existing that also adds the totals stored in the snapshot
MergeAnySnapshotStoredTotals ==
    \E data \in Snapshots :
        /\ cp.total_words + SumValues(DataGet(data, "word_freq")) <= MaxTotalWords
        /\ cp' = [merge_with_existing(cp, File(data)) EXCEPT
                     !.total_words = cp.total_words + DataGetInt(data, "total_words"),
                     !.total_bigrams = cp.total_bigrams + DataGetInt(data, "total_bigrams"),
                     !.total_trigrams = cp.total_trigrams + DataGetInt(data, "total_trigrams")]
        /\ call' = [op |-> "merge_with_existing", args |-> [self |-> cp, file |-> File(data)],
                    ret |-> <<>>]
        /\ UNCHANGED <<FUZZY_LIB, pp, cap, disk>>

\* processor.merge_with_existing(path) for a snapshot file at path
MergeAnySnapshot ==
    \E data \in Snapshots :
        /\ cp.total_words + SumValues(DataGet(data, "word_freq")) <= MaxTotalWords
        /\ cp' = merge_with_existing(cp, File(data))
        /\ call' = [op |-> "merge_with_existing", args |-> [self |-> cp, file |-> File(data)],
                    ret |-> <<>>]
        /\ UNCHANGED <<FUZZY_LIB, pp, cap, disk>>

NextTotals == NewCorpusProcessor \/ IndexText \/ MergeAnySnapshot

SpecTotals == InitIdle /\ [][NextTotals]_vars

(***************************************************************************)
(* C30: after any sequence of process_text and merge_with_existing calls   *)
(* on a fresh CorpusProcessor, whatever the stored totals of the merged    *)
(* snapshots, total_words is the sum of word_freq, total_bigrams the sum   *)
(* of all bigram counts and total_trigrams the sum of all trigram counts.  *)
(***************************************************************************)
C30_TotalsMatchCounts ==
    /\ cp.total_words = SumValues(cp.word_freq)
    /\ cp.total_bigrams = SumTable(cp.bigrams)
    /\ cp.total_trigrams = SumTable(cp.trigrams)

\* a processor that had indexed a document of three words merged a snapshot
\* whose stored totals differ from the sums of its counts
C30_Witness ==
    /\ call.op = "merge_with_existing"
    /\ call.args.self.total_trigrams > 0
    /\ call.args.self.total_words = SumValues(call.args.self.word_freq)
    /\ {"total_words", "total_trigrams"} \subseteq DOMAIN call.args.file.data
    /\ call.args.file.data.total_words # SumValues(call.args.file.data.word_freq)
    /\ call.args.file.data.total_trigrams # SumTable(call.args.file.data.trigrams)
    /\ cp.total_words = call.args.self.total_words + SumValues(call.args.file.data.word_freq)
    /\ cp.total_trigrams > call.args.self.total_trigrams

====
